---- MODULE Spec2Model ----
(***************************************************************************)
(* A model of the artifact-extraction and patch-application pipeline:      *)
(* the command scheduler (CommandQueue), the file store with its lock      *)
(* manager (useFileStore), the patch engine (applyDiffPatches), the        *)
(* debounced batcher (DebouncedUpdater), the streaming tag parser          *)
(* (StreamingParser) and the block classifier (EnhancedMessageParser).     *)
(* Every component has its own variables, its own actions and its own      *)
(* specification; the actions of one component leave the others alone.     *)
(***************************************************************************)
EXTENDS Integers, Sequences, FiniteSets, TLC

VARIABLES
    \* CommandQueue (src/unnamed/part_003)
    queue,          \* this.queue: ids of the waiting commands, head first
    running,        \* this.running: ids of the executing commands
    completed,      \* this.completed: ids of the settled commands
    commands,       \* the Command objects ever created, by id
    cq_isProcessing,\* this.isProcessing
    cq_last,        \* the last call made on the queue, and what it saw
    \* useFileStore (src/unnamed/part_002)
    files,          \* state.files: path -> File | Folder | undefined
    fs_last,        \* the last call made on the store
    fs_indep,       \* per path: how far the independent-lock scenario got
    fs_everLocked,  \* the folders lockFolder has ever locked
    \* applyDiffPatches (src/lib/diff-patch.ts)
    pe_pc,          \* "idle", "loop" (inside the while loop) or "done" (returned)
    originalContent,\* the arguments of the call
    diffContent,
    modifiedContent,\* the locals of the call
    updatedLines,
    position,
    moreBlocks,
    hasChanges,
    pe_segs,        \* the segments diffContent was written from
    pe_iter,        \* how many blocks the loop has handled
    pe_prev,        \* modifiedContent and updatedLines before the last block
    \* DebouncedUpdater (src/lib/debounced-updater.ts)
    pendingFiles,   \* this.pendingFiles: path -> content
    pendingCommands,\* this.pendingCommands
    timeoutId,      \* this.timeoutId: the handle of the last timer set, or null
    du_timers,      \* the timers that are set and have not fired
    du_isProcessing,\* this.isProcessing
    du_inflight,    \* the batch the handler is working on
    du_now,         \* the clock
    du_adds,        \* the additions made so far, with their times
    du_batches,     \* the batches handed to the handler so far, with their times
    du_flushes,     \* how many times flush() was called
    du_rejected,    \* whether the handler rejected the last batch it settled
    \* StreamingParser (src/lib/streaming-parser.ts)
    messages,       \* this.messages: message id -> session | undefined
    sp_message,     \* the pieces of the message being streamed
    sp_streamed,    \* per session: what onActionStream was handed, in order
    sp_completed,   \* per session: what onArtifactComplete was handed, in order
    sp_last,        \* the last call made on the parser; whether it repeats the call
                    \* before it, whether it follows a clear of the same session
    sp_calls,       \* how many parse calls were made with any prefix at all
    \* EnhancedMessageParser (src/lib/enhanced-message-parser.ts)
    processedBlocks,\* this.processedBlocks: message id -> set of block hashes
    artifactCounter,\* this.artifactCounter
    em_calls,       \* the calls of parse since the last reset, with what they returned
    \* Home.handleGenerate (src/lib/diff-tracker.ts)
    generatedCode,  \* the generatedCode state: Null or [files |-> path -> content]
    hg_pc,          \* "idle", or "streaming" while a handleGenerate call is under way
    hg_closure,     \* generatedCode as the running call's closure sees it
    hg_isModification, \* the isModification argument of the running or last call
    hg_response,    \* the files the last response was parsed to
    hg_outcome,     \* how the last call ended
    hg_runs         \* the number of calls so far

cqVars == <<queue, running, completed, commands, cq_isProcessing, cq_last>>

fsVars == <<files, fs_last, fs_indep, fs_everLocked>>

peVars == <<pe_pc, originalContent, diffContent, modifiedContent, updatedLines,
            position, moreBlocks, hasChanges, pe_segs, pe_iter, pe_prev>>

duVars == <<pendingFiles, pendingCommands, timeoutId, du_timers, du_isProcessing,
            du_inflight, du_now, du_adds, du_batches, du_flushes, du_rejected>>

spVars == <<messages, sp_message, sp_streamed, sp_completed, sp_last, sp_calls>>

emVars == <<processedBlocks, artifactCounter, em_calls>>

hgVars == <<generatedCode, hg_pc, hg_closure, hg_isModification, hg_response,
            hg_outcome, hg_runs>>

VARIABLES
    \* EnhancedMessageParser.classifyBlock on one shell block
    sh_lines,       \* the lines of the block's content
    sh_result       \* what classifyBlock returned, or Unclassified

shVars == <<sh_lines, sh_result>>

VARIABLES
    \* DiffTracker (src/lib/diff-tracker.ts)
    dt_snapshots,   \* this.snapshots
    dt_current,     \* this.currentSnapshot, or Null
    dt_prev         \* history: the files of the snapshot before the current one, or Null

dtVars == <<dt_snapshots, dt_current, dt_prev>>

VARIABLES
    \* useFileStore (src/unnamed/part_002): the file map and its counters
    fc_files,       \* state.files, without the lock fields
    filesCount,     \* state.filesCount
    deletedPaths    \* state.deletedPaths

fcVars == <<fc_files, filesCount, deletedPaths>>

VARIABLES
    webcontainer,   \* this.webcontainer: the instance (named by its boot), or 0 for null
    isBooting,      \* this.isBooting
    bootPromise,    \* this.bootPromise: the boot it stands for, or 0 for null
    lastCodeHash,   \* this.lastCodeHash, or 0 for null
    wc_boots,       \* the WebContainer.boot calls made so far, each with its state
    wc_call         \* per caller: where its getWebContainer call stands

wcVars == <<webcontainer, isBooting, bootPromise, lastCodeHash, wc_boots, wc_call>>

vars == <<cqVars, fsVars, peVars, duVars, spVars, emVars, hgVars, shVars, dtVars, fcVars, wcVars>>

----------------------------------------------------------------------------
(* Generic helpers.                                                        *)

\* null
Null == [null |-> TRUE]

\* A filter that keeps every element.
FilterNothing(s, x) == s

\* Array.prototype.filter keeping the elements that differ from x.
RECURSIVE FilterOut(_, _)
FilterOut(s, x) ==
    IF s = <<>> THEN <<>>
    ELSE IF Head(s) = x THEN FilterOut(Tail(s), x)
         ELSE <<Head(s)>> \o FilterOut(Tail(s), x)

Range(s) == {s[i] : i \in DOMAIN s}

----------------------------------------------------------------------------
(* CommandQueue                                                            *)

\* options.maxConcurrent, the constructor's default.
maxConcurrent == 2

\* How many commands addCommand may create in one run of the model.
MaxCommands == 4

CommandIds == 1..MaxCommands

NoValue == "undefined"

\* The object addCommand builds: status 'pending', no output, no error.
NewCommand == [status |-> "pending", output |-> NoValue, error |-> NoValue]

\* The loop without its concurrency test: everything waiting is started.
RECURSIVE processLoopNoLimit(_, _, _)
processLoopNoLimit(q, r, c) ==
    IF Len(q) > 0
    THEN processLoopNoLimit(Tail(q), Append(r, Head(q)),
                            [c EXCEPT ![Head(q)].status = "running"])
    ELSE [queue |-> q, running |-> r, commands |-> c]

\* The loop taking the command that entered the queue last.
RECURSIVE processLoopLastFirst(_, _, _)
processLoopLastFirst(q, r, c) ==
    IF Len(q) > 0 /\ Len(r) < maxConcurrent
    THEN processLoopLastFirst(SubSeq(q, 1, Len(q) - 1), Append(r, q[Len(q)]),
                              [c EXCEPT ![q[Len(q)]].status = "running"])
    ELSE [queue |-> q, running |-> r, commands |-> c]

\* The while loop of processQueue: shift the head of the queue into running
\* and start it (executeCommand sets status 'running' before its first
\* await) until the queue is empty or maxConcurrent commands are running.
RECURSIVE processLoop(_, _, _)
processLoop(q, r, c) ==
    IF Len(q) > 0 /\ Len(r) < maxConcurrent
    THEN processLoop(Tail(q), Append(r, Head(q)),
                     [c EXCEPT ![Head(q)].status = "running"])
    ELSE [queue |-> q, running |-> r, commands |-> c]

\* processQueue(): returns at once when a pass is in progress or the
\* running list is full, otherwise runs the loop.
processQueue(q, r, c, busy) ==
    IF busy \/ Len(r) >= maxConcurrent
    THEN [queue |-> q, running |-> r, commands |-> c]
    ELSE processLoop(q, r, c)

\* addCommand(command, type): a new pending command at the tail, then
\* processQueue().
CommandQueue_addCommand ==
    /\ Len(commands) < MaxCommands
    /\ LET id == Len(commands) + 1
           p  == processQueue(Append(queue, id), running,
                              Append(commands, NewCommand), cq_isProcessing)
       IN /\ queue' = p.queue
          /\ running' = p.running
          /\ commands' = p.commands
          /\ cq_last' = [op |-> "addCommand", id |-> id, pre |-> "unknown"]
    /\ UNCHANGED <<completed, cq_isProcessing>>

\* A catch branch that marks the command failed and drops the message.
recordFailureNoError(c, id) == [c EXCEPT ![id].status = "failed"]

\* The catch branch of executeCommand: status 'failed', error = the message.
recordFailure(c, id) == [c EXCEPT ![id].status = "failed", ![id].error = "message"]

\* A completion that does not look at the queue again.
settleNoPump(q, r, c, busy) == [queue |-> q, running |-> r, commands |-> c]

\* this.processQueue() at the end of executeCommand
settlePump(q, r, c, busy) == processQueue(q, r, c, busy)

\* The rest of executeCommand, after the executor's promise settles:
\* status 'completed' with the output, or 'failed' with the error message;
\* then the command moves from running to completed and processQueue().
executeCommand_settle(id, ok) ==
    /\ id \in Range(running)
    /\ LET c1 == IF ok
                 THEN [commands EXCEPT ![id].status = "completed",
                                       ![id].output = "output"]
                 ELSE recordFailure(commands, id)
           p  == settlePump(queue, FilterOut(running, id), c1, cq_isProcessing)
       IN /\ completed' = Append(completed, id)
          /\ queue' = p.queue
          /\ running' = p.running
          /\ commands' = p.commands
          /\ cq_last' = [op |-> "settle", id |-> id, pre |-> "running"]
    /\ UNCHANGED cq_isProcessing

\* clearCompleted(): completed = [].
clearCompleted ==
    /\ completed' = <<>>
    /\ cq_last' = [op |-> "clearCompleted", id |-> 0, pre |-> "unknown"]
    /\ UNCHANGED <<queue, running, commands, cq_isProcessing>>

\* What getCommandById(id) would report just before a call: the status of
\* the command if one of the three lists holds it, "cleared" if it was
\* created and is in no list any more, "unknown" if it was never created.
StatusOf(id) ==
    IF id \notin DOMAIN commands THEN "unknown"
    ELSE IF id \in Range(queue) \cup Range(running) \cup Range(completed)
         THEN commands[id].status
         ELSE "cleared"

\* A retry that takes any settled command, failed or not.
retryFindAnyStatus(id) ==
    id \in Range(completed)

\* this.completed.find(c => c.id === id && c.status === 'failed')
retryFind(id) ==
    id \in Range(completed) /\ commands[id].status = "failed"

\* A retry that puts the command in front of the waiting ones.
retryPushFront(q, id) == <<id>> \o q

\* this.queue.push(command) of retryCommand
retryPush(q, id) == Append(q, id)

\* retryCommand(id): a failed command of the completed list becomes
\* pending again, loses its error, goes to the tail of the queue and leaves
\* the completed list; then processQueue(). Anything else: nothing happens.
retryCommand(id) ==
    /\ cq_last' = [op |-> "retryCommand", id |-> id, pre |-> StatusOf(id)]
    /\ IF retryFind(id)
       THEN LET c1 == [commands EXCEPT ![id].status = "pending",
                                       ![id].error = NoValue]
                p  == processQueue(retryPush(queue, id), running, c1, cq_isProcessing)
            IN /\ completed' = FilterOut(completed, id)
               /\ queue' = p.queue
               /\ running' = p.running
               /\ commands' = p.commands
       ELSE UNCHANGED <<queue, running, completed, commands>>
    /\ UNCHANGED cq_isProcessing

cqInit ==
    /\ queue = <<>>
    /\ running = <<>>
    /\ completed = <<>>
    /\ commands = <<>>
    /\ cq_isProcessing = FALSE
    /\ cq_last = [op |-> "new", id |-> 0, pre |-> "unknown"]

----------------------------------------------------------------------------
(* useFileStore: the file map and its locks.  Paths are strings, modelled  *)
(* as tuples of characters so that startsWith is computed on the text.     *)
(* filesCount, modifiedFiles and deletedPaths are written by some of the   *)
(* operations below and never read by them; they are left out here.        *)

\* The paths the model calls the store with: "/s", "/s/a", "/sa".
Paths == { <<"/", "s">>, <<"/", "s", "/", "a">>, <<"/", "s", "a">> }

\* The file contents the model writes.
Contents == {"c", "d"}

\* lockedByFolder: undefined.
NoFolder == <<>>

\* state.files[path] === undefined
NoEntry == [type |-> "none"]

\* String.prototype.startsWith.
startsWith(str, prefix) ==
    /\ Len(prefix) <= Len(str)
    /\ SubSeq(str, 1, Len(prefix)) = prefix

\* path.startsWith(folderPath), without the '/' that ends the folder's name.
underFolderNoSlash(path, folderPath) ==
    startsWith(path, folderPath)

\* path.startsWith(folderPath + '/')
underFolder(path, folderPath) ==
    startsWith(path, folderPath \o <<"/">>)

isFile(p) == files[p].type = "file"
isFolder(p) == files[p].type = "folder"

\* The independent-lock scenario of a path: 0 nothing, 1 locked by lockFile
\* before lockFolder was ever called on a folder above it, 2 that folder
\* was then locked, 3 that folder was then unlocked.
NoScenario == [p \in Paths |-> 0]

\* createFile(filePath, content): the entry becomes a new, unlocked file.
createFile(p, c) ==
    /\ files' = [files EXCEPT ![p] =
                    [type |-> "file", content |-> c, isBinary |-> FALSE,
                     isLocked |-> FALSE, lockedByFolder |-> NoFolder]]
    /\ fs_last' = [op |-> "createFile", path |-> p]
    /\ fs_indep' = [fs_indep EXCEPT ![p] = 0]
    /\ UNCHANGED fs_everLocked

\* updateFile(filePath, content): the content of an existing file changes.
updateFile(p, c) ==
    /\ files' = IF isFile(p) THEN [files EXCEPT ![p].content = c] ELSE files
    /\ fs_last' = [op |-> "updateFile", path |-> p]
    /\ UNCHANGED <<fs_indep, fs_everLocked>>

\* deleteFile(filePath): an existing file is removed.
deleteFile(p) ==
    /\ files' = IF isFile(p) THEN [files EXCEPT ![p] = NoEntry] ELSE files
    /\ fs_last' = [op |-> "deleteFile", path |-> p]
    /\ fs_indep' = IF isFile(p) THEN [fs_indep EXCEPT ![p] = 0] ELSE fs_indep
    /\ UNCHANGED fs_everLocked

\* createFolder(folderPath): the entry becomes a new, unlocked folder.
createFolder(p) ==
    /\ files' = [files EXCEPT ![p] = [type |-> "folder", isLocked |-> FALSE]]
    /\ fs_last' = [op |-> "createFolder", path |-> p]
    /\ fs_indep' = [fs_indep EXCEPT ![p] = 0]
    /\ UNCHANGED fs_everLocked

\* deleteFolder(folderPath): an existing folder is removed with everything
\* under folderPath + '/'.
deleteFolder(f) ==
    /\ files' = IF isFolder(f)
                THEN [p \in Paths |->
                        IF p = f \/ underFolder(p, f) THEN NoEntry ELSE files[p]]
                ELSE files
    /\ fs_last' = [op |-> "deleteFolder", path |-> f]
    /\ fs_indep' = IF isFolder(f)
                   THEN [p \in Paths |->
                           IF p = f \/ underFolder(p, f) THEN 0 ELSE fs_indep[p]]
                   ELSE fs_indep
    /\ UNCHANGED fs_everLocked

\* lockFile(filePath): an existing file gets isLocked = true.
lockFile(p) ==
    /\ files' = IF isFile(p) THEN [files EXCEPT ![p].isLocked = TRUE] ELSE files
    /\ fs_last' = [op |-> "lockFile", path |-> p]
    /\ fs_indep' =
          IF /\ isFile(p)
             /\ fs_indep[p] = 0
             /\ ~ files[p].isLocked
             /\ \A f \in fs_everLocked : ~ underFolder(p, f)
          THEN [fs_indep EXCEPT ![p] = 1]
          ELSE fs_indep
    /\ UNCHANGED fs_everLocked

\* unlockFile(filePath): an existing file gets isLocked = false and loses
\* lockedByFolder.
unlockFile(p) ==
    /\ files' = IF isFile(p)
                THEN [files EXCEPT ![p].isLocked = FALSE,
                                   ![p].lockedByFolder = NoFolder]
                ELSE files
    /\ fs_last' = [op |-> "unlockFile", path |-> p]
    /\ fs_indep' = IF isFile(p) THEN [fs_indep EXCEPT ![p] = 0] ELSE fs_indep
    /\ UNCHANGED fs_everLocked

\* The same with the prefix test missing its '/'.
lockFolderFilesNoSlash(f) ==
    [p \in Paths |->
        IF p = f THEN [files[f] EXCEPT !.isLocked = TRUE]
        ELSE IF underFolderNoSlash(p, f) /\ isFile(p)
             THEN [files[p] EXCEPT !.isLocked = TRUE, !.lockedByFolder = f]
             ELSE files[p]]

\* The files lockFolder(folderPath) marks: the map after the forEach, given
\* the test that says which paths are inside the folder.
lockFolderFiles(f) ==
    [p \in Paths |->
        IF p = f THEN [files[f] EXCEPT !.isLocked = TRUE]
        ELSE IF underFolder(p, f) /\ isFile(p)
             THEN [files[p] EXCEPT !.isLocked = TRUE, !.lockedByFolder = f]
             ELSE files[p]]

\* lockFolder(folderPath): an existing folder gets isLocked = true, and every
\* file under folderPath + '/' gets isLocked = true, lockedByFolder = folderPath.
lockFolder(f) ==
    /\ files' = IF isFolder(f) THEN lockFolderFiles(f) ELSE files
    /\ fs_last' = [op |-> "lockFolder", path |-> f]
    /\ fs_indep' = IF isFolder(f)
                   THEN [p \in Paths |->
                           IF underFolder(p, f) /\ isFile(p) /\ fs_indep[p] \in {1, 3}
                           THEN 2 ELSE fs_indep[p]]
                   ELSE fs_indep
    /\ fs_everLocked' = IF isFolder(f) THEN fs_everLocked \cup {f} ELSE fs_everLocked

\* unlockFolder(folderPath): an existing folder gets isLocked = false, and
\* every file under folderPath + '/' whose lockedByFolder is folderPath gets
\* isLocked = false and loses lockedByFolder.
unlockFolder(f) ==
    /\ files' = IF isFolder(f)
                THEN [p \in Paths |->
                        IF p = f THEN [files[f] EXCEPT !.isLocked = FALSE]
                        ELSE IF /\ underFolder(p, f)
                                /\ isFile(p)
                                /\ files[p].lockedByFolder = f
                             THEN [files[p] EXCEPT !.isLocked = FALSE,
                                                   !.lockedByFolder = NoFolder]
                             ELSE files[p]]
                ELSE files
    /\ fs_last' = [op |-> "unlockFolder", path |-> f]
    /\ fs_indep' = IF isFolder(f)
                   THEN [p \in Paths |->
                           IF underFolder(p, f) /\ isFile(p) /\ fs_indep[p] = 2
                           THEN 3 ELSE fs_indep[p]]
                   ELSE fs_indep
    /\ UNCHANGED fs_everLocked

\* isFileLocked(filePath).locked
isFileLocked(p) == isFile(p) /\ files[p].isLocked

\* isFolderLocked(folderPath).isLocked
isFolderLocked(p) == isFolder(p) /\ files[p].isLocked

fsInit ==
    /\ files = [p \in Paths |-> NoEntry]
    /\ fs_last = [op |-> "new", path |-> <<>>]
    /\ fs_indep = NoScenario
    /\ fs_everLocked = {}


----------------------------------------------------------------------------
(* Strings are tuples of one-character strings; positions are 0-based as   *)
(* in the code.                                                            *)

\* Whether pat occurs in s at (0-based) position i.
MatchAt(s, pat, i) ==
    /\ i >= 0
    /\ i + Len(pat) <= Len(s)
    /\ pat = <<>> \/ s[i + 1] = pat[1]
    /\ \A k \in 2..Len(pat) : s[i + k] = pat[k]

\* String.prototype.indexOf(pat, from): the first position >= from where
\* pat occurs, or -1.
IndexOf(s, pat, from) ==
    LET found == {i \in from..(Len(s) - Len(pat)) : MatchAt(s, pat, i)}
    IN IF found = {} THEN -1
       ELSE CHOOSE i \in found : \A j \in found : i <= j

\* String.prototype.substring(from, to), 0 <= from <= to <= length.
Substring(s, from, to) == SubSeq(s, from + 1, to)

WhiteSpace == {" ", "\n", "\t", "\r"}

RECURSIVE TrimStart(_)
TrimStart(s) ==
    IF s # <<>> /\ Head(s) \in WhiteSpace THEN TrimStart(Tail(s)) ELSE s

RECURSIVE TrimEnd(_)
TrimEnd(s) ==
    IF s # <<>> /\ s[Len(s)] \in WhiteSpace
    THEN TrimEnd(SubSeq(s, 1, Len(s) - 1)) ELSE s

\* String.prototype.trim()
Trim(s) == TrimEnd(TrimStart(s))

\* s.split("\n").length: one more than the number of newlines.
SplitLength(s) == 1 + Cardinality({i \in DOMAIN s : s[i] = "\n"})

\* The replacement text String.prototype.replace builds from a replacement
\* string (GetSubstitution, no capture groups): "$$" is "$", "$&" is the
\* matched text, "$`" the text before the match, "$'" the text after it;
\* every other character stands for itself.
RECURSIVE GetSubstitution(_, _, _, _)
GetSubstitution(repl, matched, before, after) ==
    IF repl = <<>> THEN <<>>
    ELSE IF Head(repl) = "$" /\ Len(repl) >= 2 /\ repl[2] \in {"$", "&", "`", "'"}
         THEN (CASE repl[2] = "$" -> <<"$">>
                 [] repl[2] = "&" -> matched
                 [] repl[2] = "`" -> before
                 [] repl[2] = "'" -> after)
              \o GetSubstitution(SubSeq(repl, 3, Len(repl)), matched, before, after)
         ELSE <<Head(repl)>>
              \o GetSubstitution(Tail(repl), matched, before, after)

\* str.replace(pat, repl) with a string pattern: the first occurrence of pat
\* is replaced by the substitution built from repl.
StringReplace(str, pat, repl) ==
    LET i == IndexOf(str, pat, 0) IN
    IF i = -1 THEN str
    ELSE LET before == Substring(str, 0, i)
             after  == Substring(str, i + Len(pat), Len(str))
         IN before \o GetSubstitution(repl, pat, before, after) \o after

----------------------------------------------------------------------------
(* Regular expressions, as the code's RegExp literals use them.  A pattern *)
(* is a sequence of items; Rx matches it at one position the way a         *)
(* backtracking matcher does: alternatives left to right, greedy           *)
(* repetitions longest first, lazy ones shortest first.  The matcher's     *)
(* choices are kept as a list of states in the order it would try them.    *)

Lit(s) == [t |-> "lit", s |-> s]
OneOf(S) == [t |-> "set", in |-> S, neg |-> FALSE]
NoneOf(S) == [t |-> "set", in |-> S, neg |-> TRUE]
Rep(body, min, max, lazy) ==
    [t |-> "rep", body |-> body, min |-> min, max |-> max, lazy |-> lazy]
Star(item) == Rep(<<item>>, 0, -1, FALSE)
Plus(item) == Rep(<<item>>, 1, -1, FALSE)
LazyStar(item) == Rep(<<item>>, 0, -1, TRUE)
LazyPlus(item) == Rep(<<item>>, 1, -1, TRUE)
Opt(body) == Rep(body, 0, 1, FALSE)
Alt(alts) == [t |-> "alt", alts |-> alts]
Cap(n, body) == [t |-> "cap", n |-> n, body |-> body]
Look(body) == [t |-> "look", body |-> body]
Bol == [t |-> "bol"]
Eoi == [t |-> "eoi"]

\* The flags of a RegExp that decide how one position is matched.
Flags(i, m) == [i |-> i, m |-> m]

UpperCase == <<"A", "B", "C", "D", "E", "F", "G", "H", "I", "J", "K", "L", "M",
               "N", "O", "P", "Q", "R", "S", "T", "U", "V", "W", "X", "Y", "Z">>
LowerCase == <<"a", "b", "c", "d", "e", "f", "g", "h", "i", "j", "k", "l", "m",
               "n", "o", "p", "q", "r", "s", "t", "u", "v", "w", "x", "y", "z">>
Digits == {"0", "1", "2", "3", "4", "5", "6", "7", "8", "9"}

\* \w and \s.
WordChars == Range(UpperCase) \cup Range(LowerCase) \cup Digits \cup {"_"}
SpaceChars == {" ", "\n", "\t", "\r"}

\* The case folding of the i flag.
Fold(c) ==
    IF c \in Range(UpperCase)
    THEN LowerCase[CHOOSE k \in DOMAIN UpperCase : UpperCase[k] = c]
    ELSE c

CharEq(a, b, fl) == a = b \/ (fl.i /\ Fold(a) = Fold(b))

InSet(c, S, fl) == c \in S \/ (fl.i /\ \E d \in S : Fold(d) = Fold(c))

\* No capture group has taken part in the match yet.
NoCaps == <<<<-1, -1>>, <<-1, -1>>, <<-1, -1>>>>

NoMatch == [ok |-> FALSE, end |-> -1, caps |-> NoCaps]

\* A state of the matcher: the position it stands at, what the groups hold.
RxState(pos, caps) == [pos |-> pos, caps |-> caps]

\* How many characters of the class set stand in a row from pos on.
RunLength(set, s, pos, fl) ==
    CHOOSE n \in 0..(Len(s) - pos) :
        /\ \A k \in 1..n : InSet(s[pos + k], set.in, fl) # set.neg
        /\ \/ n = Len(s) - pos
           \/ InSet(s[pos + n + 1], set.in, fl) = set.neg

\* The states after count runs of characters that end between first and
\* last, the longest run first (lazy: the shortest first).
RunStatesAmong(st, first, count, lazy) ==
    IF count <= 0 THEN <<>>
    ELSE [k \in 1..count |->
            RxState(IF lazy THEN st.pos + first + (k - 1)
                            ELSE st.pos + first + (count - k),
                    st.caps)]

\* The states after a repetition of one character class, run being how far
\* the class goes.
RunStates(it, st, run) ==
    RunStatesAmong(st, it.min,
                   (IF it.max >= 0 /\ it.max < run THEN it.max ELSE run) - it.min + 1,
                   it.lazy)

RECURSIVE RxItem(_, _, _, _)
RECURSIVE RxEach(_, _, _, _, _, _)
RECURSIVE RxAlts(_, _, _, _, _, _)
RECURSIVE RxSeq(_, _, _, _)

\* The states a backtracking matcher reaches after one item from the state
\* st, in the order it tries them.
RxItem(it, s, st, fl) ==
    CASE it.t = "lit" ->
              IF /\ st.pos + Len(it.s) <= Len(s)
                 /\ \A k \in 1..Len(it.s) : CharEq(s[st.pos + k], it.s[k], fl)
              THEN <<RxState(st.pos + Len(it.s), st.caps)>>
              ELSE <<>>
      [] it.t = "set" ->
              IF st.pos < Len(s) /\ (InSet(s[st.pos + 1], it.in, fl) # it.neg)
              THEN <<RxState(st.pos + 1, st.caps)>>
              ELSE <<>>
      [] it.t = "rep" /\ Len(it.body) = 1 /\ it.body[1].t = "set" ->
              RunStates(it, st, RunLength(it.body[1], s, st.pos, fl))
      [] it.t = "rep" /\ ~ (Len(it.body) = 1 /\ it.body[1].t = "set") ->
              IF it.max = 0 THEN <<st>>
              ELSE IF it.min > 0
              THEN RxSeq(it.body \o <<Rep(it.body, it.min - 1, it.max - 1, it.lazy)>>,
                         s, <<st>>, fl)
              ELSE IF it.lazy
              THEN <<st>>
                   \o RxSeq(it.body \o <<Rep(it.body, it.min - 1, it.max - 1, it.lazy)>>,
                            s, <<st>>, fl)
              ELSE RxSeq(it.body \o <<Rep(it.body, it.min - 1, it.max - 1, it.lazy)>>,
                         s, <<st>>, fl)
                   \o <<st>>
      [] it.t = "alt" -> RxAlts(it.alts, s, st, fl, 1, Len(it.alts))
      [] it.t = "cap" ->
              RxSeq(<<[t |-> "open", n |-> it.n]>> \o it.body
                    \o <<[t |-> "close", n |-> it.n]>>, s, <<st>>, fl)
      [] it.t = "open" ->
              <<RxState(st.pos, [st.caps EXCEPT ![it.n] = <<st.pos, -1>>])>>
      [] it.t = "close" ->
              <<RxState(st.pos, [st.caps EXCEPT ![it.n] = <<st.caps[it.n][1], st.pos>>])>>
      [] it.t = "look" ->
              IF RxSeq(it.body, s, <<st>>, fl) # <<>> THEN <<st>> ELSE <<>>
      [] it.t = "bol" ->
              IF st.pos = 0 \/ (fl.m /\ s[st.pos] \in {"\n", "\r"})
              THEN <<st>> ELSE <<>>
      [] it.t = "eoi" ->
              IF st.pos = Len(s) \/ (fl.m /\ s[st.pos + 1] \in {"\n", "\r"})
              THEN <<st>> ELSE <<>>

\* The states after one item from each of states[lo..hi], in order.
RxEach(it, s, states, fl, lo, hi) ==
    IF lo > hi THEN <<>>
    ELSE IF lo = hi THEN RxItem(it, s, states[lo], fl)
    ELSE RxEach(it, s, states, fl, lo, (lo + hi) \div 2)
         \o RxEach(it, s, states, fl, ((lo + hi) \div 2) + 1, hi)

\* The states after one of the alternatives alts[lo..hi], left to right.
RxAlts(alts, s, st, fl, lo, hi) ==
    IF lo > hi THEN <<>>
    ELSE IF lo = hi THEN RxSeq(alts[lo], s, <<st>>, fl)
    ELSE RxAlts(alts, s, st, fl, lo, (lo + hi) \div 2)
         \o RxAlts(alts, s, st, fl, ((lo + hi) \div 2) + 1, hi)

\* The states after the items, one after the other, from each of states.
RxSeq(items, s, states, fl) ==
    IF items = <<>> \/ states = <<>> THEN states
    ELSE IF Len(items) = 1 THEN RxEach(items[1], s, states, fl, 1, Len(states))
    ELSE RxSeq(SubSeq(items, (Len(items) \div 2) + 1, Len(items)), s,
               RxSeq(SubSeq(items, 1, Len(items) \div 2), s, states, fl), fl)

\* The match a backtracking matcher settles on: the first state it reaches.
RxFirst(states) ==
    IF states = <<>> THEN NoMatch
    ELSE [ok |-> TRUE, end |-> states[1].pos, caps |-> states[1].caps]

\* The match of the items at pos, if there is one.
Rx(items, s, pos, caps, fl) == RxFirst(RxSeq(items, s, <<RxState(pos, caps)>>, fl))

\* The text a capture group matched, and whether it took part at all.
Group(s, m, n) ==
    IF m.caps[n][2] = -1
    THEN [defined |-> FALSE, text |-> <<>>]
    ELSE [defined |-> TRUE, text |-> Substring(s, m.caps[n][1], m.caps[n][2])]

\* A pattern that begins with literal text can only match where the first
\* character of that text stands.
StartsRight(items, s, i, fl) ==
    (items # <<>> /\ Head(items).t = "lit" /\ Head(items).s # <<>>)
    => (i < Len(s) /\ CharEq(s[i + 1], Head(items).s[1], fl))

\* The match object of a match of the pattern that starts at start.
MatchFrom(start, r) ==
    [ok |-> TRUE, start |-> start, end |-> r.end, caps |-> r.caps]

\* The leftmost of the positions where the pattern matches, if there is one.
ExecAmong(items, s, fl, starts) ==
    IF starts = {}
    THEN [ok |-> FALSE, start |-> -1, end |-> -1, caps |-> NoCaps]
    ELSE MatchFrom(CHOOSE i \in starts : \A j \in starts : i <= j,
                   Rx(items, s, CHOOSE i \in starts : \A j \in starts : i <= j,
                      NoCaps, fl))

\* RegExp.prototype.exec from lastIndex: the leftmost match at or after it.
Exec(items, s, lastIndex, fl) ==
    ExecAmong(items, s, fl,
              {i \in lastIndex..Len(s) :
                  StartsRight(items, s, i, fl) /\ Rx(items, s, i, NoCaps, fl).ok})

\* The matches of a while ((match = regex.exec(s)) !== null) loop over a
\* RegExp with the g flag, in order: m is the match exec has just returned,
\* and lastIndex moves to its end (one further after an empty match).
RECURSIVE ExecLoop(_, _, _, _)
ExecLoop(items, s, fl, m) ==
    IF ~ m.ok THEN <<>>
    ELSE <<m>> \o ExecLoop(items, s, fl,
                           Exec(items, s,
                                IF m.end = m.start THEN m.end + 1 ELSE m.end, fl))

ExecAll(items, s, lastIndex, fl) ==
    ExecLoop(items, s, fl, Exec(items, s, lastIndex, fl))

----------------------------------------------------------------------------
(* applyDiffPatches (src/lib/diff-patch.ts): one call is a run of the      *)
(* while loop over the function's locals, one iteration per step.          *)

SEARCH_START == <<"<", "<", "<", "<", "<", "<", "<", " ", "S", "E", "A", "R", "C", "H">>
DIVIDER == <<"=", "=", "=", "=", "=", "=", "=">>
REPLACE_END == <<">", ">", ">", ">", ">", ">", ">", " ", "R", "E", "P", "L", "A", "C", "E">>

\* How many segments (patch blocks, or broken pieces of one) a patch text of
\* the model is made of, at most.
MaxSegments == 2

NL == <<"\n">>

\* The original contents the model patches: "b\na", "a\na".
Originals ==
    { <<"b", "\n", "a">>, <<"a", "\n", "a">> }

\* The search texts of the model's blocks: "", "a", "c".
SearchTexts == { <<>>, <<"a">>, <<"c">> }

\* The replace texts of the model's blocks: "", "c\nd", "$&".
ReplaceTexts == { <<>>, <<"c", "\n", "d">>, <<"$", "&">> }

\* The segments a patch text is made of: a whole block, or a piece that
\* lacks a marker ("S": no divider and no end, "SD": no end, "DR": no start).
Segments ==
    [kind : {"block"}, search : SearchTexts, replace : ReplaceTexts]
    \cup [kind : {"S", "SD", "DR"}, search : {<<"a">>}, replace : {<<"c">>}]

\* The text of a segment; pad is written around the search and replace texts
\* (the blank space trim() removes).
SegmentText(seg, pad) ==
    CASE seg.kind = "block" ->
            SEARCH_START \o NL \o pad \o seg.search \o pad \o NL
            \o DIVIDER \o NL \o pad \o seg.replace \o pad \o NL
            \o REPLACE_END \o NL
      [] seg.kind = "S" ->
            SEARCH_START \o NL \o seg.search \o NL
      [] seg.kind = "SD" ->
            SEARCH_START \o NL \o seg.search \o NL \o DIVIDER \o NL \o seg.replace \o NL
      [] seg.kind = "DR" ->
            DIVIDER \o NL \o seg.replace \o NL \o REPLACE_END \o NL

RECURSIVE DiffText(_, _)
DiffText(segs, pad) ==
    IF segs = <<>> THEN <<>>
    ELSE SegmentText(Head(segs), pad) \o DiffText(Tail(segs), pad)

SegmentLists == UNION { [1..n -> Segments] : n \in 0..MaxSegments }

\* The branch for an empty search block, without the newline.
insertAtTopNoNewline(replaceBlock, content) ==
    [content |-> replaceBlock \o content,
     range   |-> <<1, SplitLength(replaceBlock)>>]

\* The branch for an empty search block: `${replaceBlock}\n${modifiedContent}`
\* and the range [1, replaceBlock.split("\n").length].
insertAtTop(replaceBlock, content) ==
    [content |-> replaceBlock \o NL \o content,
     range   |-> <<1, SplitLength(replaceBlock)>>]

\* The branch for a search block found at blockPosition: the range from the
\* line of the match, and the first occurrence replaced.
replaceBlockAt(searchBlock, replaceBlock, content, blockPosition) ==
    LET beforeText      == Substring(content, 0, blockPosition)
        startLineNumber == SplitLength(beforeText)
        replaceLines    == SplitLength(replaceBlock)
        endLineNumber   == startLineNumber + replaceLines - 1
    IN [content |-> StringReplace(content, searchBlock, replaceBlock),
        range   |-> <<startLineNumber, endLineNumber>>]

\* A missing end marker taken for the end of the patch text.
findReplaceEndOrEnd(diff, dividerIndex) ==
    LET i == IndexOf(diff, REPLACE_END, dividerIndex)
    IN IF i = -1 THEN Len(diff) ELSE i

\* diffContent.indexOf(REPLACE_END, dividerIndex)
findReplaceEnd(diff, dividerIndex) ==
    IndexOf(diff, REPLACE_END, dividerIndex)

\* The search run against the content the call was given.
findBlockInOriginal(content, searchBlock) ==
    IndexOf(originalContent, searchBlock, 0)

\* const blockPosition = modifiedContent.indexOf(searchBlock)
findBlock(content, searchBlock) ==
    IndexOf(content, searchBlock, 0)

\* Every block taken for applied, found or not.
blockAppliedAlways(searchBlock, blockPosition) == TRUE

\* Whether a block changes the content: if (searchBlock === "") ... else
\* if (blockPosition !== -1) ...
blockApplied(searchBlock, blockPosition) ==
    searchBlock = <<>> \/ blockPosition # -1

\* const applyDiffPatches = (originalContent, diffContent) => ...: the
\* locals before the loop.  The function keeps nothing between calls, so a
\* run of the model makes one call.
applyDiffPatches_call(orig, segs, pad) ==
    /\ pe_pc = "idle"
    /\ pe_pc' = "loop"
    /\ originalContent' = orig
    /\ diffContent' = DiffText(segs, pad)
    /\ modifiedContent' = orig
    /\ updatedLines' = <<>>
    /\ position' = 0
    /\ moreBlocks' = TRUE
    /\ hasChanges' = FALSE
    /\ pe_segs' = segs
    /\ pe_iter' = 0
    /\ pe_prev' = [modifiedContent |-> orig, updatedLines |-> <<>>]

\* One pass through the body of while (moreBlocks); the pass that finds no
\* further block ends the loop and the function returns.
applyDiffPatches_iterate ==
    /\ pe_pc = "loop"
    /\ \E searchStartIndex \in {IndexOf(diffContent, SEARCH_START, position)} :
       \E dividerIndex \in {IF searchStartIndex = -1 THEN -1
                             ELSE IndexOf(diffContent, DIVIDER, searchStartIndex)} :
       \E replaceEndIndex \in {IF dividerIndex = -1 THEN -1
                                ELSE findReplaceEnd(diffContent, dividerIndex)} :
          IF replaceEndIndex = -1
          THEN /\ moreBlocks' = FALSE
               /\ pe_pc' = "done"
               /\ UNCHANGED <<modifiedContent, updatedLines, position,
                              hasChanges, pe_iter, pe_prev>>
          ELSE \E searchBlock \in {Trim(Substring(diffContent,
                                        searchStartIndex + Len(SEARCH_START),
                                        dividerIndex))} :
               \E replaceBlock \in {Trim(Substring(diffContent,
                                        dividerIndex + Len(DIVIDER),
                                        replaceEndIndex))} :
               \E blockPosition \in {IF searchBlock = <<>> THEN -1
                                      ELSE findBlock(modifiedContent, searchBlock)} :
               \E applied \in {blockApplied(searchBlock, blockPosition)} :
               \E r \in {IF searchBlock = <<>>
                          THEN insertAtTop(replaceBlock, modifiedContent)
                          ELSE IF blockPosition # -1
                          THEN replaceBlockAt(searchBlock, replaceBlock,
                                              modifiedContent, blockPosition)
                          ELSE [content |-> modifiedContent, range |-> <<>>]} :
                  /\ modifiedContent' = r.content
                  /\ updatedLines' = IF applied THEN Append(updatedLines, r.range)
                                     ELSE updatedLines
                  /\ hasChanges' = (hasChanges \/ applied)
                  /\ position' = replaceEndIndex + Len(REPLACE_END)
                  /\ pe_iter' = pe_iter + 1
                  /\ pe_prev' = [modifiedContent |-> modifiedContent,
                                 updatedLines |-> updatedLines]
                  /\ UNCHANGED <<moreBlocks, pe_pc>>
    /\ UNCHANGED <<originalContent, diffContent, pe_segs>>

peInit ==
    /\ pe_pc = "idle"
    /\ originalContent = <<>>
    /\ diffContent = <<>>
    /\ modifiedContent = <<>>
    /\ updatedLines = <<>>
    /\ position = 0
    /\ moreBlocks = FALSE
    /\ hasChanges = FALSE
    /\ pe_segs = <<>>
    /\ pe_iter = 0
    /\ pe_prev = [modifiedContent |-> <<>>, updatedLines |-> <<>>]

----------------------------------------------------------------------------
(* Home.handleGenerate (src/lib/diff-tracker.ts): a call sets the          *)
(* generatedCode state to null, streams the response, parses it to a map   *)
(* of files and, in a modification run, patches the files the closure's    *)
(* generatedCode holds.  The streaming and the JSON repair are left out:   *)
(* a call ends with the map of files the response was parsed to, or with   *)
(* an error.                                                               *)

\* The number of calls of handleGenerate in a run of the model.
MaxRuns == 2

\* undefined, the value of a property an object does not have; the text it
\* is written as in a template string.
Undefined == <<"undefined">>
UndefinedText == <<"u", "n", "d", "e", "f", "i", "n", "e", "d">>

\* The paths of the model's files.  Neither ends in .js or .jsx, so the
\* export fixes of the final parse leave their contents alone.
HgPaths == {"a.css", "b.css"}

\* The contents a response gives a file: "a", and three patch texts of one
\* block: "a" replaced by "c\nd", "c" replaced by "", "c\nd" put on top.
HgContents ==
    { <<"a">>,
      DiffText(<<[kind |-> "block", search |-> <<"a">>, replace |-> <<"c", "\n", "d">>]>>, <<>>),
      DiffText(<<[kind |-> "block", search |-> <<"c">>, replace |-> <<>>]>>, <<>>),
      DiffText(<<[kind |-> "block", search |-> <<>>, replace |-> <<"c", "\n", "d">>]>>, <<>>) }

\* The maps of files a response is parsed to; the empty one among them.
HgResponses == UNION { [S -> HgContents] : S \in SUBSET HgPaths }

\* What applyDiffPatches returns, or that it threw.
DiffResult(content, ranges, changed, threw) ==
    [modifiedContent |-> content, updatedLines |-> ranges,
     hasChanges |-> changed, threw |-> threw]

\* The while loop of applyDiffPatches from position on, as a function of its
\* locals.  An undefined originalContent is written "undefined" by the
\* template string of an insertion, and modifiedContent.indexOf throws on it.
RECURSIVE applyDiffPatchesLoop(_, _, _, _, _)
applyDiffPatchesBlock(content, diff, ranges, changed, searchBlock, replaceBlock, next) ==
    IF searchBlock = <<>>
    THEN applyDiffPatchesLoop(
             insertAtTop(replaceBlock,
                         IF content = Undefined THEN UndefinedText ELSE content).content,
             diff, next,
             Append(ranges, <<1, SplitLength(replaceBlock)>>), TRUE)
    ELSE IF content = Undefined
    THEN DiffResult(content, ranges, changed, TRUE)
    ELSE IF blockApplied(searchBlock, IndexOf(content, searchBlock, 0))
    THEN applyDiffPatchesLoop(
             replaceBlockAt(searchBlock, replaceBlock, content,
                            IndexOf(content, searchBlock, 0)).content,
             diff, next,
             Append(ranges, replaceBlockAt(searchBlock, replaceBlock, content,
                                           IndexOf(content, searchBlock, 0)).range),
             TRUE)
    ELSE applyDiffPatchesLoop(content, diff, next, ranges, changed)

applyDiffPatchesMarkers(content, diff, ranges, changed, searchStartIndex, dividerIndex, replaceEndIndex) ==
    IF replaceEndIndex = -1
    THEN DiffResult(content, ranges, changed, FALSE)
    ELSE applyDiffPatchesBlock(
             content, diff, ranges, changed,
             Trim(Substring(diff, searchStartIndex + Len(SEARCH_START), dividerIndex)),
             Trim(Substring(diff, dividerIndex + Len(DIVIDER), replaceEndIndex)),
             replaceEndIndex + Len(REPLACE_END))

applyDiffPatchesLoop(content, diff, from, ranges, changed) ==
    IF IndexOf(diff, SEARCH_START, from) = -1
    THEN DiffResult(content, ranges, changed, FALSE)
    ELSE IF IndexOf(diff, DIVIDER, IndexOf(diff, SEARCH_START, from)) = -1
    THEN DiffResult(content, ranges, changed, FALSE)
    ELSE applyDiffPatchesMarkers(
             content, diff, ranges, changed,
             IndexOf(diff, SEARCH_START, from),
             IndexOf(diff, DIVIDER, IndexOf(diff, SEARCH_START, from)),
             findReplaceEnd(diff, IndexOf(diff, DIVIDER,
                                          IndexOf(diff, SEARCH_START, from))))

\* applyDiffPatches(originalContent, diffContent) as a function.
applyDiffPatches(original, diff) ==
    applyDiffPatchesLoop(original, diff, 0, <<>>, FALSE)

\* fileContent.includes('<<<<<<< SEARCH') && fileContent.includes('=======')
\* && fileContent.includes('>>>>>>> REPLACE')
hasPatchMarkers(fileContent) ==
    /\ IndexOf(fileContent, SEARCH_START, 0) # -1
    /\ IndexOf(fileContent, DIVIDER, 0) # -1
    /\ IndexOf(fileContent, REPLACE_END, 0) # -1

\* generatedCode.files[filePath]
originalOf(codeFiles, filePath) ==
    IF filePath \in DOMAIN codeFiles THEN codeFiles[filePath] ELSE Undefined

\* The body of Object.keys(files).forEach for one file: what processedFiles
\* gets for it, whether it set hasAnyChanges, and whether it threw.
processFile(fileContent, original) ==
    IF hasPatchMarkers(fileContent)
    THEN LET result == applyDiffPatches(original, fileContent)
         IN [content |-> IF result.hasChanges THEN result.modifiedContent
                         ELSE original,
             changed |-> result.hasChanges,
             threw   |-> result.threw]
    ELSE [content |-> original, changed |-> FALSE, threw |-> FALSE]

\* processedFiles after the forEach: one entry per file of the response.
processedFiles(responseFiles, codeFiles) ==
    [filePath \in DOMAIN responseFiles |->
        processFile(responseFiles[filePath], originalOf(codeFiles, filePath)).content]

hasAnyChanges(responseFiles, codeFiles) ==
    \E filePath \in DOMAIN responseFiles :
        processFile(responseFiles[filePath], originalOf(codeFiles, filePath)).changed

modificationThrew(responseFiles, codeFiles) ==
    \E filePath \in DOMAIN responseFiles :
        processFile(responseFiles[filePath], originalOf(codeFiles, filePath)).threw

\* handleGenerate(prompt, isModification) up to the request: the state is
\* set to null; the closure keeps the generatedCode of the render the call
\* was made from.  handleModify only calls it when that holds files.
handleGenerate_begin(isModification) ==
    /\ hg_pc = "idle"
    /\ hg_runs < MaxRuns
    /\ isModification => generatedCode # Null
    /\ hg_pc' = "streaming"
    /\ hg_closure' = generatedCode
    /\ generatedCode' = Null
    /\ hg_isModification' = isModification
    /\ hg_response' = <<>>
    /\ hg_outcome' = "running"
    /\ hg_runs' = hg_runs + 1

\* The call ends without a parsed response: no API key, a response that is
\* not ok, an error event or a network error.
handleGenerate_fail ==
    /\ hg_pc = "streaming"
    /\ hg_pc' = "idle"
    /\ hg_outcome' = "error"
    /\ UNCHANGED <<generatedCode, hg_closure, hg_isModification, hg_response, hg_runs>>

\* The [DONE] event: the response is parsed to responseFiles; no file at all
\* throws; in a modification run the files of the response are patched and
\* the call returns when none changed; setGeneratedCode(finalContent).
handleGenerate_done(responseFiles) ==
    /\ hg_pc = "streaming"
    /\ hg_pc' = "idle"
    /\ hg_response' = responseFiles
    /\ IF DOMAIN responseFiles = {}
       THEN /\ hg_outcome' = "error"
            /\ UNCHANGED generatedCode
       ELSE IF hg_isModification /\ hg_closure # Null
       THEN IF modificationThrew(responseFiles, hg_closure.files)
            THEN /\ hg_outcome' = "error"
                 /\ UNCHANGED generatedCode
            ELSE IF ~ hasAnyChanges(responseFiles, hg_closure.files)
            THEN /\ hg_outcome' = "no changes"
                 /\ UNCHANGED generatedCode
            ELSE /\ hg_outcome' = "set"
                 /\ generatedCode' =
                       [files |-> processedFiles(responseFiles, hg_closure.files)]
       ELSE /\ hg_outcome' = "set"
            /\ generatedCode' = [files |-> responseFiles]
    /\ UNCHANGED <<hg_closure, hg_isModification, hg_runs>>

hgInit ==
    /\ generatedCode = Null
    /\ hg_pc = "idle"
    /\ hg_closure = Null
    /\ hg_isModification = FALSE
    /\ hg_response = <<>>
    /\ hg_outcome = "none"
    /\ hg_runs = 0

----------------------------------------------------------------------------
(* DebouncedUpdater (src/lib/debounced-updater.ts).  Time is a counter; a  *)
(* timer set by setTimeout is the instant at which it is due, which also   *)
(* serves as its handle; a due timer fires before time moves on.           *)

\* options.delay, in ticks of the model's clock.
Delay == 2

\* The instant after which the model's clock stops.
MaxTime == 5

\* How many addFile and addCommand calls one run of the model makes.
MaxAdds == 3

\* How many flush() calls one run of the model makes.
MaxFlushes == 2

\* The path addFile is called with.
DuPaths == {"p"}

\* options.maxBatchSize of the updater the model constructs.
maxBatchSize == 2

\* timeoutId === null
NoTimer == -1

\* No batch is with the handler.
NoBatch == [files |-> <<>>, commands |-> <<>>, id |-> 0]

\* scheduleUpdate() that forgets to clear the timer it replaces.
scheduleUpdateNoClear ==
    /\ du_timers' = du_timers \cup {du_now + Delay}
    /\ timeoutId' = du_now + Delay

\* scheduleUpdate(): the pending timer, if any, is cleared and a new one is
\* set to fire after options.delay.
scheduleUpdate ==
    /\ du_timers' = (IF timeoutId # NoTimer THEN du_timers \ {timeoutId}
                     ELSE du_timers) \cup {du_now + Delay}
    /\ timeoutId' = du_now + Delay

\* addFile(path, content): pendingFiles[path] = content, scheduleUpdate().
\* The content written is the number of the addition.
DebouncedUpdater_addFile(path) ==
    /\ Len(du_adds) < MaxAdds
    /\ LET n == Len(du_adds) + 1
       IN /\ pendingFiles' = [q \in DOMAIN pendingFiles \cup {path} |->
                                IF q = path THEN n ELSE pendingFiles[q]]
          /\ du_adds' = Append(du_adds, [kind |-> "file", item |-> n,
                                         path |-> path, time |-> du_now])
    /\ scheduleUpdate
    /\ UNCHANGED <<pendingCommands, du_isProcessing, du_inflight, du_now,
                   du_batches, du_flushes, du_rejected>>

\* addCommand(command): pendingCommands.push(command), scheduleUpdate().
\* The command text is the number of the addition.
DebouncedUpdater_addCommand ==
    /\ Len(du_adds) < MaxAdds
    /\ LET n == Len(du_adds) + 1
       IN /\ pendingCommands' = Append(pendingCommands, n)
          /\ du_adds' = Append(du_adds, [kind |-> "command", item |-> n,
                                         path |-> "", time |-> du_now])
    /\ scheduleUpdate
    /\ UNCHANGED <<pendingFiles, du_isProcessing, du_inflight, du_now,
                   du_batches, du_flushes, du_rejected>>

\* A processBatch that leaves the pending commands in the buffer.
processBatchKeepCommands ==
    IF du_isProcessing \/ (DOMAIN pendingFiles = {} /\ Len(pendingCommands) = 0)
    THEN UNCHANGED <<pendingFiles, pendingCommands, du_isProcessing,
                     du_inflight, du_batches>>
    ELSE /\ du_isProcessing' = TRUE
         /\ pendingFiles' = <<>>
         /\ pendingCommands' = pendingCommands
         /\ du_inflight' = [files |-> pendingFiles, commands |-> pendingCommands,
                            id |-> Len(du_batches) + 1]
         /\ du_batches' = Append(du_batches,
                             [files |-> pendingFiles, commands |-> pendingCommands,
                              time |-> du_now])

\* A processBatch that leaves the pending files in the buffer.
processBatchKeepFiles ==
    IF du_isProcessing \/ (DOMAIN pendingFiles = {} /\ Len(pendingCommands) = 0)
    THEN UNCHANGED <<pendingFiles, pendingCommands, du_isProcessing,
                     du_inflight, du_batches>>
    ELSE /\ du_isProcessing' = TRUE
         /\ pendingFiles' = pendingFiles
         /\ pendingCommands' = <<>>
         /\ du_inflight' = [files |-> pendingFiles, commands |-> pendingCommands,
                            id |-> Len(du_batches) + 1]
         /\ du_batches' = Append(du_batches,
                             [files |-> pendingFiles, commands |-> pendingCommands,
                              time |-> du_now])

\* A processBatch that does not test isProcessing.
processBatchNoGuard ==
    IF DOMAIN pendingFiles = {} /\ Len(pendingCommands) = 0
    THEN UNCHANGED <<pendingFiles, pendingCommands, du_isProcessing,
                     du_inflight, du_batches>>
    ELSE /\ du_isProcessing' = TRUE
         /\ pendingFiles' = <<>>
         /\ pendingCommands' = <<>>
         /\ du_inflight' = [files |-> pendingFiles, commands |-> pendingCommands,
                            id |-> Len(du_batches) + 1]
         /\ du_batches' = Append(du_batches,
                             [files |-> pendingFiles, commands |-> pendingCommands,
                              time |-> du_now])

\* processBatch(), up to the await of the handler: nothing when a batch is
\* being processed or nothing is pending; otherwise the pending files and
\* commands are copied into a batch, the pending buffers are emptied and the
\* batch is handed to options.onBatchReady.
processBatch ==
    IF du_isProcessing \/ (DOMAIN pendingFiles = {} /\ Len(pendingCommands) = 0)
    THEN UNCHANGED <<pendingFiles, pendingCommands, du_isProcessing,
                     du_inflight, du_batches>>
    ELSE LET batch == [files |-> pendingFiles, commands |-> pendingCommands,
                       id |-> Len(du_batches) + 1]
         IN /\ du_isProcessing' = TRUE
            /\ pendingFiles' = <<>>
            /\ pendingCommands' = <<>>
            /\ du_inflight' = batch
            /\ du_batches' = Append(du_batches,
                                [files |-> batch.files, commands |-> batch.commands,
                                 time |-> du_now])

\* The callback given to setTimeout: processBatch().
timerFires(d) ==
    /\ d \in du_timers
    /\ d <= du_now
    /\ du_timers' = du_timers \ {d}
    /\ processBatch
    /\ UNCHANGED <<timeoutId, du_now, du_adds, du_flushes, du_rejected>>

\* flush(): the pending timer is cleared, timeoutId = null, processBatch().
DebouncedUpdater_flush ==
    /\ du_flushes < MaxFlushes
    /\ du_flushes' = du_flushes + 1
    /\ du_timers' = IF timeoutId # NoTimer THEN du_timers \ {timeoutId} ELSE du_timers
    /\ timeoutId' = NoTimer
    /\ processBatch
    /\ UNCHANGED <<du_now, du_adds, du_rejected>>

\* A settling without the finally: a rejection leaves isProcessing set.
processBatch_settleNoFinally(ok) ==
    /\ du_inflight # NoBatch
    /\ du_inflight' = NoBatch
    /\ du_isProcessing' = ~ ok
    /\ du_rejected' = ~ ok
    /\ UNCHANGED <<pendingFiles, pendingCommands, timeoutId, du_timers, du_now,
                   du_adds, du_batches, du_flushes>>

\* The rest of processBatch, after the handler's promise settles, resolved
\* or rejected: isProcessing = false.
processBatch_settle(ok) ==
    /\ du_inflight # NoBatch
    /\ du_inflight' = NoBatch
    /\ du_isProcessing' = FALSE
    /\ du_rejected' = ~ ok
    /\ UNCHANGED <<pendingFiles, pendingCommands, timeoutId, du_timers, du_now,
                   du_adds, du_batches, du_flushes>>

\* Time passes: one tick, unless a timer is due.
tick ==
    /\ du_now < MaxTime
    /\ \A d \in du_timers : du_now < d
    /\ du_now' = du_now + 1
    /\ UNCHANGED <<pendingFiles, pendingCommands, timeoutId, du_timers,
                   du_isProcessing, du_inflight, du_adds, du_batches, du_flushes,
                   du_rejected>>

duInit ==
    /\ pendingFiles = <<>>
    /\ pendingCommands = <<>>
    /\ timeoutId = NoTimer
    /\ du_timers = {}
    /\ du_isProcessing = FALSE
    /\ du_inflight = NoBatch
    /\ du_now = 0
    /\ du_adds = <<>>
    /\ du_batches = <<>>
    /\ du_flushes = 0
    /\ du_rejected = FALSE

----------------------------------------------------------------------------
(* StreamingParser (src/lib/streaming-parser.ts).  The message being       *)
(* streamed is a list of pieces (tags and text); parse is handed prefixes  *)
(* of their concatenation.                                                 *)

TagArtifactOpen ==
    <<"<", "b", "o", "l", "t", "A", "r", "t", "i", "f", "a", "c", "t", " ",
      "i", "d", "=", "\"", "a", "\"", " ",
      "t", "i", "t", "l", "e", "=", "\"", "t", "\"", ">">>
TagActionOpenShell ==
    <<"<", "b", "o", "l", "t", "A", "c", "t", "i", "o", "n", " ",
      "t", "y", "p", "e", "=", "\"", "s", "h", "e", "l", "l", "\"", ">">>
TagActionOpenFile ==
    <<"<", "b", "o", "l", "t", "A", "c", "t", "i", "o", "n", " ",
      "t", "y", "p", "e", "=", "\"", "f", "i", "l", "e", "\"", " ",
      "f", "i", "l", "e", "P", "a", "t", "h", "=", "\"", "f", "\"", ">">>
TagActionClose ==
    <<"<", "/", "b", "o", "l", "t", "A", "c", "t", "i", "o", "n", ">">>
TagArtifactClose ==
    <<"<", "/", "b", "o", "l", "t", "A", "r", "t", "i", "f", "a", "c", "t", ">">>

\* The messages streamed: a complete artifact with one action, one with two
\* actions, and one that follows stray closing tags.
SessionMessage ==
    <<TagArtifactOpen, TagActionOpenShell, <<"x">>, TagActionClose, TagArtifactClose>>
TwoActionsMessage ==
    <<TagArtifactOpen, TagActionOpenFile, <<"x">>, TagActionClose,
      TagActionOpenShell, <<"y">>, TagActionClose, TagArtifactClose>>
StrayClosersMessage ==
    <<TagActionClose, TagArtifactClose, TagArtifactOpen, TagActionOpenShell,
      <<"x">>, TagActionClose, TagArtifactClose>>

Messages == {SessionMessage, TwoActionsMessage, StrayClosersMessage}

MsgIds == {"m1", "m2"}
\* The message ids the stream is parsed under.
StreamIds == {"m1"}

RECURSIVE Concat(_)
Concat(pieces) ==
    IF pieces = <<>> THEN <<>> ELSE Head(pieces) \o Concat(Tail(pieces))

\* Where a stream may be cut: at the start, after every piece, and one
\* character into every tag.
CutPoints(pieces) ==
    {0} \cup { Len(Concat(SubSeq(pieces, 1, k))) : k \in 1..Len(pieces) }
        \cup { Len(Concat(SubSeq(pieces, 1, k - 1))) + 1 :
                 k \in { j \in 1..Len(pieces) : Len(pieces[j]) > 1 } }

NoSession == [exists |-> FALSE]

NewSession ==
    [exists |-> TRUE, position |-> 0, insideArtifact |-> FALSE,
     insideAction |-> FALSE, currentArtifact |-> Null, currentAction |-> Null,
     actionId |-> 0]

NoFlags == Flags(FALSE, FALSE)

NotGt == Star(NoneOf({">"}))
Quoted(n) == <<Lit(<<"\"">>), Cap(n, <<Star(NoneOf({"\""}))>>), Lit(<<"\"">>)>>

artifactOpen ==
    <<Lit(<<"<", "b", "o", "l", "t", "A", "r", "t", "i", "f", "a", "c", "t">>),
      NotGt, Lit(<<"i", "d", "=">>)>> \o Quoted(1)
    \o <<NotGt, Lit(<<"t", "i", "t", "l", "e", "=">>)>> \o Quoted(2)
    \o <<NotGt, Lit(<<">">>)>>
artifactClose == <<Lit(TagArtifactClose)>>
actionOpen ==
    <<Lit(<<"<", "b", "o", "l", "t", "A", "c", "t", "i", "o", "n">>),
      NotGt, Lit(<<"t", "y", "p", "e", "=">>)>> \o Quoted(1)
    \o <<NotGt,
         Opt(<<Lit(<<"f", "i", "l", "e", "P", "a", "t", "h", "=">>)>> \o Quoted(2)),
         NotGt, Lit(<<">">>)>>
actionClose == <<Lit(TagActionClose)>>

\* input.slice(from) with the cursor ignored: the whole input every time.
SliceAll(s, from) == s

\* input.slice(from)
Slice(s, from) == IF from >= Len(s) THEN <<>> ELSE SubSeq(s, from + 1, Len(s))

\* The while loop over artifactOpen: every match replaces the current artifact.
RECURSIVE openArtifacts(_, _, _)
openArtifacts(st, s, ms) ==
    IF ms = <<>> THEN st
    ELSE openArtifacts(
           [st EXCEPT !.insideArtifact = TRUE,
                      !.currentArtifact =
                          [id |-> Group(s, Head(ms), 1).text,
                           title |-> Group(s, Head(ms), 2).text,
                           actions |-> <<>>]],
           s, Tail(ms))

\* The while loop over actionOpen: every match replaces the current action.
RECURSIVE openActions(_, _, _, _)
openActions(st, messageId, s, ms) ==
    IF ms = <<>> THEN st
    ELSE openActions(
           [st EXCEPT !.insideAction = TRUE,
                      !.actionId = st.actionId + 1,
                      !.currentAction =
                          [type |-> Group(s, Head(ms), 1).text,
                           filePath |-> Group(s, Head(ms), 2),
                           content |-> <<>>,
                           id |-> <<messageId, st.actionId + 1>>]],
           messageId, s, Tail(ms))

\* A loop over actionClose that leaves the action open after reporting it.
RECURSIVE closeActionsKeepOpen(_, _)
closeActionsKeepOpen(r, n) ==
    IF n = 0 THEN r
    ELSE IF r.st.insideAction /\ r.st.currentAction # Null
    THEN closeActionsKeepOpen(
           [r EXCEPT !.streamed = Append(r.streamed, r.st.currentAction),
                     !.st = [r.st EXCEPT
                               !.currentArtifact =
                                   IF r.st.currentArtifact # Null
                                   THEN [r.st.currentArtifact EXCEPT
                                           !.actions = Append(@, r.st.currentAction)]
                                   ELSE Null]],
           n - 1)
    ELSE closeActionsKeepOpen(r, n - 1)

\* The while loop over actionClose.  r carries the session and what the
\* callbacks were handed.
RECURSIVE closeActions(_, _)
closeActions(r, n) ==
    IF n = 0 THEN r
    ELSE IF r.st.insideAction /\ r.st.currentAction # Null
    THEN closeActions(
           [r EXCEPT !.streamed = Append(r.streamed, r.st.currentAction),
                     !.st = [r.st EXCEPT
                               !.currentArtifact =
                                   IF r.st.currentArtifact # Null
                                   THEN [r.st.currentArtifact EXCEPT
                                           !.actions = Append(@, r.st.currentAction)]
                                   ELSE Null,
                               !.insideAction = FALSE,
                               !.currentAction = Null]],
           n - 1)
    ELSE closeActions(r, n - 1)

\* The while loop over artifactClose.
RECURSIVE closeArtifacts(_, _)
closeArtifacts(r, n) ==
    IF n = 0 THEN r
    ELSE IF r.st.insideArtifact /\ r.st.currentArtifact # Null
    THEN closeArtifacts(
           [r EXCEPT !.completed = Append(r.completed, r.st.currentArtifact),
                     !.st = [r.st EXCEPT !.insideArtifact = FALSE,
                                         !.currentArtifact = Null]],
           n - 1)
    ELSE closeArtifacts(r, n - 1)

\* The last step of parse: the content of an action that is still open.
accumulate(st, newContent) ==
    IF st.insideAction /\ st.currentAction # Null
    THEN LET nextActionClose == IndexOf(newContent, TagActionClose, 0)
         IN [st EXCEPT !.currentAction.content =
                @ \o (IF nextActionClose # -1
                      THEN Substring(newContent, 0, nextActionClose)
                      ELSE newContent)]
    ELSE st

\* The four loops of parse over the new chunk and the accumulation after
\* them, from the session st: the session afterwards and what the two
\* callbacks were handed, in order.
parseLoops(st, messageId, newContent) ==
    closeArtifacts(
        closeActions(
            [st |-> openActions(
                       openArtifacts(st, newContent,
                                     ExecAll(artifactOpen, newContent, 0, NoFlags)),
                       messageId, newContent,
                       ExecAll(actionOpen, newContent, 0, NoFlags)),
             streamed |-> <<>>, completed |-> <<>>],
            Len(ExecAll(actionClose, newContent, 0, NoFlags))),
        Len(ExecAll(artifactClose, newContent, 0, NoFlags)))

parseAccumulate(r, newContent) ==
    [r EXCEPT !.st = accumulate(r.st, newContent)]

\* parse on an existing session: the chunk is what follows state.position.
parseChunk(st, messageId, input) ==
    parseAccumulate(
        parseLoops([st EXCEPT !.position = Len(input)], messageId,
                   Slice(input, st.position)),
        Slice(input, st.position))

\* parse(messageId, input) on the session st0 (NoSession: none yet, and one
\* is created).
parse(st0, messageId, input) ==
    parseChunk(IF st0 = NoSession THEN NewSession ELSE st0, messageId, input)

\* The number of parse calls with any prefix, in any order, in one run.
MaxCalls == 3

\* Where such calls cut the stream: at the start and after every piece.
PieceEnds(pieces) ==
    {0} \cup { Len(Concat(SubSeq(pieces, 1, k))) : k \in 1..Len(pieces) }

\* What the callbacks of a session have been handed, after a call that
\* handed them more; the record starts anew with a new session.
Handed(before, session, more) ==
    (IF session = NoSession THEN <<>> ELSE before) \o more

\* One call of parse(messageId, input), input being the first n characters
\* of the stream.
parseCall(messageId, n) ==
    /\ \E r \in {parse(messages[messageId], messageId,
                       SubSeq(Concat(sp_message), 1, n))} :
          /\ messages' = [messages EXCEPT ![messageId] = r.st]
          /\ sp_streamed' = [sp_streamed EXCEPT ![messageId] =
                Handed(@, messages[messageId], r.streamed)]
          /\ sp_completed' = [sp_completed EXCEPT ![messageId] =
                Handed(@, messages[messageId], r.completed)]
    /\ sp_last' = [op |-> "parse", id |-> messageId, n |-> n,
                    again |-> (sp_last.op = "parse" /\ sp_last.id = messageId
                               /\ sp_last.n = n),
                    afterClear |-> (sp_last.op = "clear" /\ sp_last.id = messageId)]
    /\ UNCHANGED sp_message

\* One call of parse with the first n characters of the stream.  The
\* prefixes one session is handed grow strictly.
StreamingParser_parse(messageId, n) ==
    /\ n \in CutPoints(sp_message)
    /\ messages[messageId] # NoSession => n > messages[messageId].position
    /\ parseCall(messageId, n)
    /\ UNCHANGED sp_calls

\* One call of parse with any prefix of the stream, longer than the last
\* one, the same, or shorter.
StreamingParser_parseAny(messageId, n) ==
    /\ sp_calls < MaxCalls
    /\ n \in PieceEnds(sp_message)
    /\ parseCall(messageId, n)
    /\ sp_calls' = sp_calls + 1

\* A clear that keeps the cursor of the session it removes.
StreamingParser_clearKeepsCursor(messageId) ==
    /\ messages[messageId] # NoSession
    /\ messages' = [messages EXCEPT ![messageId] =
                       [NewSession EXCEPT !.position = messages[messageId].position]]
    /\ sp_last' = [op |-> "clear", id |-> messageId, n |-> 0,
                    again |-> FALSE, afterClear |-> FALSE]
    /\ UNCHANGED <<sp_message, sp_streamed, sp_completed, sp_calls>>

\* clear(messageId)
StreamingParser_clear(messageId) ==
    /\ messages[messageId] # NoSession
    /\ messages' = [messages EXCEPT ![messageId] = NoSession]
    /\ sp_last' = [op |-> "clear", id |-> messageId, n |-> 0,
                    again |-> FALSE, afterClear |-> FALSE]
    /\ UNCHANGED <<sp_message, sp_streamed, sp_completed, sp_calls>>

spInit ==
    /\ messages = [id \in MsgIds |-> NoSession]
    /\ sp_streamed = [id \in MsgIds |-> <<>>]
    /\ sp_completed = [id \in MsgIds |-> <<>>]
    /\ sp_last = [op |-> "new", id |-> "", n |-> 0, again |-> FALSE, afterClear |-> FALSE]
    /\ sp_calls = 0

----------------------------------------------------------------------------
(* EnhancedMessageParser (src/lib/enhanced-message-parser.ts): the string  *)
(* functions and the regular-expression calls its methods use.             *)

\* String.prototype.includes
Includes(s, pat) == IndexOf(s, pat, 0) # -1

\* String.prototype.toLowerCase
ToLowerCase(s) == [k \in DOMAIN s |-> Fold(s[k])]

\* String.prototype.split(sep) for a separator of one character.
RECURSIVE Split(_, _)
Split(s, sep) ==
    IF IndexOf(s, <<sep>>, 0) = -1 THEN <<s>>
    ELSE <<Substring(s, 0, IndexOf(s, <<sep>>, 0))>>
         \o Split(Slice(s, IndexOf(s, <<sep>>, 0) + 1), sep)

\* lines.map(line => line.trim())
TrimAll(lines) == [k \in DOMAIN lines |-> Trim(lines[k])]

\* lines.filter(Boolean): the strings that are not empty.
RECURSIVE NonEmpty(_)
NonEmpty(lines) ==
    IF lines = <<>> THEN <<>>
    ELSE (IF Head(lines) = <<>> THEN <<>> ELSE <<Head(lines)>>) \o NonEmpty(Tail(lines))

\* RegExp.prototype.test of a pattern without the g flag.
Test(items, s, fl) == \E i \in 0..Len(s) : Rx(items, s, i, NoCaps, fl).ok

\* String.prototype.split(regex) for a pattern without capture groups: p is
\* where the piece being cut starts, q where a separator is looked for.
RECURSIVE SplitRxFrom(_, _, _, _, _)
RECURSIVE SplitRxStep(_, _, _, _, _, _)
SplitRxFrom(items, s, fl, p, q) ==
    IF q >= Len(s) THEN <<Substring(s, p, Len(s))>>
    ELSE SplitRxStep(items, s, fl, p, q, Rx(items, s, q, NoCaps, fl))

SplitRxStep(items, s, fl, p, q, r) ==
    IF ~ r.ok \/ r.end = p THEN SplitRxFrom(items, s, fl, p, q + 1)
    ELSE <<Substring(s, p, q)>> \o SplitRxFrom(items, s, fl, r.end, r.end)

SplitRx(items, s, fl) == SplitRxFrom(items, s, fl, 0, 0)

\* s without the stretch a match m covers, and s itself when m is no match:
\* s.replace(regex, '') for a pattern without the g flag.
CutMatch(s, m) ==
    IF m.ok THEN Substring(s, 0, m.start) \o Slice(s, m.end) ELSE s

RemoveFirst(items, s, fl) == CutMatch(s, Exec(items, s, 0, fl))

\* The character with the code 96, the backquote.
Backtick == "backquote"

\* The characters with the codes 32 to 126, in the order of their codes.
AsciiPrintable ==
    <<" ", "!", "\"", "#", "$", "%", "&", "'", "(", ")", "*", "+", ",", "-", ".", "/",
      "0", "1", "2", "3", "4", "5", "6", "7", "8", "9", ":", ";", "<", "=", ">", "?",
      "@", "A", "B", "C", "D", "E", "F", "G", "H", "I", "J", "K", "L", "M", "N", "O",
      "P", "Q", "R", "S", "T", "U", "V", "W", "X", "Y", "Z", "[", "\\", "]", "^", "_",
      Backtick, "a", "b", "c", "d", "e", "f", "g", "h", "i", "j", "k", "l", "m", "n", "o",
      "p", "q", "r", "s", "t", "u", "v", "w", "x", "y", "z", "{", "|", "}", "~">>

\* String.prototype.charCodeAt, for one character.
charCodeAt(c) ==
    IF c = "\n" THEN 10
    ELSE IF c = "\t" THEN 9
    ELSE IF c = "\r" THEN 13
    ELSE 31 + (CHOOSE k \in DOMAIN AsciiPrintable : AsciiPrintable[k] = c)

\* A 32-bit integer from its two 16-bit halves, read as signed.
FromHalves(hi, lo) ==
    IF hi >= 32768 THEN (hi - 65536) * 65536 + lo ELSE hi * 65536 + lo

\* One pass of the loop of hashBlock: (hash << 5) - hash + char, kept to 32
\* bits by hash & hash.  That is 31 * hash + char modulo 2^32, worked out on
\* the two 16-bit halves of hash.
hashStep(hash, char) ==
    FromHalves((31 * ((hash \div 65536) % 65536)
                + (31 * (hash % 65536) + char) \div 65536) % 65536,
               (31 * (hash % 65536) + char) % 65536)

Base36Digits ==
    <<"0", "1", "2", "3", "4", "5", "6", "7", "8", "9", "a", "b", "c", "d", "e", "f",
      "g", "h", "i", "j", "k", "l", "m", "n", "o", "p", "q", "r", "s", "t", "u", "v",
      "w", "x", "y", "z">>

\* The digits of n >= 0 in base 36.
RECURSIVE Base36(_)
Base36(n) ==
    IF n < 36 THEN <<Base36Digits[n + 1]>>
    ELSE Base36(n \div 36) \o <<Base36Digits[(n % 36) + 1]>>

\* The digits of a + 1 in base 36, for a >= 0.
Base36Succ(a) ==
    IF a % 36 = 35 THEN Base36((a \div 36) + 1) \o <<"0">>
    ELSE IF a < 36 THEN <<Base36Digits[a + 2]>>
    ELSE Base36(a \div 36) \o <<Base36Digits[(a % 36) + 2]>>

\* Number.prototype.toString(36) of a 32-bit integer.
toString36(n) ==
    IF n >= 0 THEN Base36(n) ELSE <<"-">> \o Base36Succ(-(n + 1))

\* The loop of hashBlock over the characters lo..hi of content, from the
\* value hash: the loop over the first half of them, then over the rest.
RECURSIVE hashLoop(_, _, _, _)
hashLoop(hash, content, lo, hi) ==
    IF lo > hi THEN hash
    ELSE IF lo = hi THEN hashStep(hash, charCodeAt(content[lo]))
    ELSE CHOOSE h \in {hashLoop(half, content, ((lo + hi) \div 2) + 1, hi) :
                          half \in {hashLoop(hash, content, lo, (lo + hi) \div 2)}} : TRUE

\* hashBlock(content)
hashBlock(content) == toString36(hashLoop(0, content, 1, Len(content)))

----------------------------------------------------------------------------
(* EnhancedMessageParser: the patterns of detectCodeBlocks and             *)
(* detectFileOperations, and the file name functions.                      *)

FlagsI == Flags(TRUE, FALSE)
FlagsIM == Flags(TRUE, TRUE)

\* One alternative per word: (?:w1|w2|...)
RECURSIVE WordAlts(_)
WordAlts(ws) == IF ws = <<>> THEN <<>> ELSE <<<<Lit(Head(ws))>>>> \o WordAlts(Tail(ws))

Words(ws) == Alt(WordAlts(ws))

\* c?  \s*  \s+  \w+  \w*  [\s\S]*?  for one character c
Maybe(c) == Rep(<<OneOf({c})>>, 0, 1, FALSE)
Spaces0 == Star(OneOf(SpaceChars))
Spaces1 == Plus(OneOf(SpaceChars))
Word1 == Plus(OneOf(WordChars))
Word0 == Star(OneOf(WordChars))
AnyLazy == LazyStar(NoneOf({}))

\* [`'"]*
Quotes0 == Star(OneOf({Backtick, "'", "\""}))

\* [\/\w\-\.]+\.\w+
PathPattern == <<Plus(OneOf(WordChars \cup {"/", "-", "."})), Lit(<<".">>), Word1>>

Fence == Lit(<<Backtick, Backtick, Backtick>>)

\* :?\s*\n+```(\w*)\n([\s\S]*?)```  with the groups numbered 2 and 3
FencedBlock ==
    <<Maybe(":"), Spaces0, Plus(OneOf({"\n"})), Fence, Cap(2, <<Word0>>), Lit(<<"\n">>),
      Cap(3, <<AnyLazy>>), Fence>>

\* Pattern 1: a file path on a line of its own, then a fenced block.
filePathPattern ==
    <<Alt(<<<<Bol>>, <<Lit(<<"\n">>)>>>>), Cap(1, PathPattern)>> \o FencedBlock

\* Pattern 2: "create ... <path>", then a fenced block.
explicitCreatePattern ==
    <<Alt(<<<<Lit(<<"c", "r", "e", "a", "t", "e">>)>>, <<Lit(<<"u", "p", "d", "a", "t",
            "e">>)>>, <<Lit(<<"m", "o", "d", "i", "f", "y">>)>>,
            <<Lit(<<"e", "d", "i", "t">>)>>, <<Lit(<<"w", "r", "i", "t", "e">>)>>, <<Lit(<<"a",
                    "d", "d">>)>>,
            <<Lit(<<"g", "e", "n", "e", "r", "a", "t", "e">>)>>,
            <<Lit(<<"h", "e", "r", "e">>), Maybe("'"), Maybe("s")>>,
            <<Lit(<<"f", "i", "l", "e">>), Maybe(":")>>>>),
      Spaces1,
      Opt(<<Lit(<<"a">>), Spaces1>>), Opt(<<Lit(<<"n", "e", "w">>), Spaces1>>),
      Opt(<<Lit(<<"f", "i", "l", "e">>), Spaces1>>), Opt(<<Lit(<<"c", "a", "l", "l", "e",
              "d">>), Spaces1>>),
      Quotes0, Cap(1, PathPattern), Quotes0>> \o FencedBlock

\* Pattern 3: a fenced block whose first line is a comment naming the file.
commentFilenamePattern ==
    <<Fence, Cap(1, <<Word0>>), Lit(<<"\n">>),
      Words(<<<<"/", "/">>, <<"#">>, <<"<", "!", "-", "-">>>>), Spaces0,
      Alt(<<<<Lit(<<"f", "i", "l", "e">>), Maybe(":")>>, <<Lit(<<"f", "i", "l", "e", "n", "a",
              "m", "e">>), Maybe(":")>>>>),
      Spaces0, Cap(2, PathPattern), LazyStar(NoneOf({"\n", "\r"})), Lit(<<"\n">>),
      Cap(3, <<AnyLazy>>), Fence>>

\* Pattern 4: "in <path>", then a fenced block.
inFilenamePattern ==
    <<Words(<<<<"i", "n">>, <<"f", "o", "r">>, <<"u", "p", "d", "a", "t", "e">>>>), Spaces1,
      Quotes0, Cap(1, PathPattern), Quotes0>> \o FencedBlock

\* Pattern 5: a fenced block that holds a package description or markup.
structuredFilePattern ==
    <<Fence,
      Alt(<<<<Lit(<<"j", "s", "o", "n">>)>>, <<Lit(<<"j", "s">>), Maybe("x")>>, <<Lit(<<"t",
              "s">>), Maybe("x")>>,
            <<Lit(<<"h", "t", "m">>), Maybe("l")>>, <<Lit(<<"v", "u", "e">>)>>, <<Lit(<<"s",
                    "v", "e", "l", "t", "e">>)>>>>),
      Lit(<<"\n">>),
      Cap(1, <<Alt(<<
          <<Lit(<<"{">>), AnyLazy, Lit(<<"\"">>),
            Words(<<<<"n", "a", "m", "e">>, <<"v", "e", "r", "s", "i", "o", "n">>, <<"s", "c",
                    "r", "i", "p", "t", "s">>, <<"d", "e", "p", "e", "n", "d", "e", "n", "c",
                    "i", "e", "s">>,
                    <<"d", "e", "v", "D", "e", "p", "e", "n", "d", "e", "n", "c", "i", "e",
                            "s">>>>),
            Lit(<<"\"">>), AnyLazy, Lit(<<"}">>)>>,
          <<Lit(<<"<">>), Word1, Star(NoneOf({">"})), Lit(<<">">>), AnyLazy,
            Lit(<<"<", "/">>), Word1, Lit(<<">">>), AnyLazy>> >>)>>),
      Fence>>

\* The pattern of detectFileOperations.
fileOperationPattern ==
    <<Words(<<<<"c", "r", "e", "a", "t", "e">>, <<"w", "r", "i", "t", "e">>, <<"s", "a", "v",
            "e">>, <<"g", "e", "n", "e", "r", "a", "t", "e">>>>), Spaces1,
      Opt(<<Lit(<<"a">>), Spaces1>>), Opt(<<Lit(<<"n", "e", "w">>), Spaces1>>),
      Lit(<<"f", "i", "l", "e">>), Spaces1, Opt(<<Lit(<<"a", "t">>), Spaces1>>),
      Quotes0, Cap(1, PathPattern), Quotes0, Spaces1,
      Lit(<<"w", "i", "t", "h">>), Spaces1,
      Opt(<<Lit(<<"t", "h", "e">>), Spaces1>>), Opt(<<Lit(<<"f", "o", "l", "l", "o", "w", "i",
              "n", "g">>), Spaces1>>),
      Lit(<<"c", "o", "n", "t", "e", "n", "t">>), Maybe(":"), Spaces0, Lit(<<"\n">>),
      Cap(2, <<LazyPlus(NoneOf({}))>>),
      Look(<<Alt(<<<<Lit(<<"\n", "\n">>)>>,
                   <<Lit(<<"\n">>),
                     Words(<<<<"c", "r", "e", "a", "t", "e">>, <<"w", "r", "i", "t", "e">>,
                             <<"s", "a", "v", "e">>, <<"g", "e", "n", "e", "r", "a", "t",
                             "e">>, <<"n", "o", "w">>,
                             <<"n", "e", "x", "t">>, <<"t", "h", "e", "n">>, <<"f", "i", "n",
                                     "a", "l", "l", "y">>>>)>>,
                   <<Eoi>>>>)>>)>>

\* s.replace(/[`'"]/g, '')
RECURSIVE StripQuotes(_)
StripQuotes(s) ==
    IF s = <<>> THEN <<>>
    ELSE (IF Head(s) \in {Backtick, "'", "\""} THEN <<>> ELSE <<Head(s)>>)
         \o StripQuotes(Tail(s))

\* s.replace(/\\/g, '/')
SlashForward(s) == [k \in DOMAIN s |-> IF s[k] = "\\" THEN "/" ELSE s[k]]

\* The last two steps of normalizeFilePath: a leading "./" goes, ...
dropDotSlash(filePath) ==
    IF startsWith(filePath, <<".", "/">>) THEN Slice(filePath, 2) ELSE filePath

\* ... and a path that starts with neither "/" nor "." gets a leading "/".
addLeadingSlash(filePath) ==
    IF ~ startsWith(filePath, <<"/">>) /\ ~ startsWith(filePath, <<".">>)
    THEN <<"/">> \o filePath
    ELSE filePath

\* normalizeFilePath(filePath)
normalizeFilePath(filePath) ==
    addLeadingSlash(dropDotSlash(SlashForward(Trim(StripQuotes(filePath)))))

\* Number.prototype.toString() of n >= 0.
RECURSIVE Decimal(_)
Decimal(n) ==
    IF n < 10 THEN <<Base36Digits[n + 1]>>
    ELSE Decimal(n \div 10) \o <<Base36Digits[(n % 10) + 1]>>

\* /(?:function|class|const|export\s+default\s+function|export\s+function)\s+(\w+)/
componentPattern ==
    <<Alt(<<<<Lit(<<"f", "u", "n", "c", "t", "i", "o", "n">>)>>, <<Lit(<<"c", "l", "a", "s",
            "s">>)>>, <<Lit(<<"c", "o", "n", "s", "t">>)>>,
            <<Lit(<<"e", "x", "p", "o", "r", "t">>), Spaces1, Lit(<<"d", "e", "f", "a", "u",
                    "l", "t">>), Spaces1, Lit(<<"f", "u", "n", "c", "t", "i", "o", "n">>)>>,
            <<Lit(<<"e", "x", "p", "o", "r", "t">>), Spaces1, Lit(<<"f", "u", "n", "c", "t",
                    "i", "o", "n">>)>>>>),
      Spaces1, Cap(1, <<Word1>>)>>

\* The name inferFileNameFromContent gives when componentMatch is the match
\* of componentPattern in content.
inferFromMatch(content, language, componentMatch, now) ==
    IF componentMatch.ok
    THEN <<"/", "c", "o", "m", "p", "o", "n", "e", "n", "t", "s", "/">> \o Group(content,
            componentMatch, 1).text
         \o (IF language = <<"j", "s", "x">> THEN <<".", "j", "s", "x">>
             ELSE IF language = <<"t", "s", "x">> THEN <<".", "t", "s", "x">> ELSE <<".", "j",
                     "s">>)
    ELSE IF Includes(content, <<"f", "u", "n", "c", "t", "i", "o", "n", " ", "A", "p",
            "p">>) \/ Includes(content, <<"c", "o", "n", "s", "t", " ", "A", "p", "p">>)
    THEN <<"/", "A", "p", "p", ".", "j", "s", "x">>
    ELSE IF language = <<"j", "s", "o", "n">> /\ Includes(content, <<"\"", "n", "a", "m", "e",
            "\"">>)
    THEN <<"/", "p", "a", "c", "k", "a", "g", "e", ".", "j", "s", "o", "n">>
    ELSE IF language = <<"h", "t", "m", "l">> /\ Includes(content, <<"<", "h", "t", "m", "l">>)
    THEN <<"/", "i", "n", "d", "e", "x", ".", "h", "t", "m", "l">>
    ELSE IF language = <<"c", "s", "s">> /\ Includes(content, <<"{">>)
    THEN <<"/", "s", "t", "y", "l", "e", "s", ".", "c", "s", "s">>
    ELSE <<"/", "c", "o", "m", "p", "o", "n", "e", "n", "t", "-">> \o Decimal(now) \o <<".",
            "j", "s", "x">>

\* inferFileNameFromContent(content, language), when Date.now() is now.
inferFileNameFromContent(content, language, now) ==
    inferFromMatch(content, language, Exec(componentPattern, content, 0, NoFlags), now)

\* The patterns isValidFilePath excludes.
excludePatterns ==
    <<[fl |-> FlagsI,
       re |-> <<Bol, Maybe("/"), Words(<<<<"t", "m", "p">>, <<"t", "e", "m", "p">>, <<"t", "e",
               "s", "t">>, <<"e", "x", "a", "m", "p", "l", "e">>>>),
                Lit(<<"/">>)>>],
      [fl |-> FlagsI,
       re |-> <<Lit(<<".">>),
                Words(<<<<"t", "m", "p">>, <<"t", "e", "m", "p">>, <<"b", "a", "k">>, <<"b",
                        "a", "c", "k", "u", "p">>, <<"o", "l", "d">>, <<"o", "r", "i",
                        "g">>>>), Eoi>>],
      [fl |-> FlagsI,
       re |-> <<Bol, Maybe("/"), Words(<<<<"o", "u", "t", "p", "u", "t">>, <<"r", "e", "s",
               "u", "l", "t">>, <<"r", "e", "s", "p", "o", "n", "s", "e">>>>),
                Lit(<<"/">>)>>],
      [fl |-> FlagsI,
       re |-> <<Bol, Lit(<<"c", "o", "d", "e", "_">>), Plus(OneOf(Digits)), Lit(<<".">>),
                Words(<<<<"s", "h">>, <<"b", "a", "s", "h">>, <<"z", "s", "h">>>>), Eoi>>],
      [fl |-> FlagsI,
       re |-> <<Bol, Words(<<<<"u", "n", "t", "i", "t", "l", "e", "d">>, <<"n", "e", "w">>,
               <<"d", "e", "m", "o">>, <<"s", "a", "m", "p", "l", "e">>>>),
                Star(OneOf(Digits)), Lit(<<".">>)>>]>>

\* patterns.some(pattern => pattern.test(s))
SomeTest(patterns, s) ==
    \E k \in DOMAIN patterns : Test(patterns[k].re, s, patterns[k].fl)

\* isValidFilePath(filePath)
isValidFilePath(filePath) ==
    /\ filePath # <<>>
    /\ Test(<<Lit(<<".">>), Word1, Eoi>>, filePath, NoFlags)
    /\ Test(<<Bol, Plus(OneOf(WordChars \cup {"/", "-", "."})), Eoi>>, filePath, NoFlags)
    /\ ~ SomeTest(excludePatterns, filePath)

----------------------------------------------------------------------------
(* EnhancedMessageParser: telling shell commands from scripts and files.   *)

\* ^(w1|w2|...) followed by tail
StartsWithWord(ws, tail) == [fl |-> NoFlags, re |-> <<Bol, Words(ws)>> \o tail]

\* this.commandPatterns, in the order of the Map.
commandPatterns ==
    <<[fl |-> NoFlags,
       re |-> <<Bol, Words(<<<<"n", "p", "m">>, <<"y", "a", "r", "n">>, <<"p", "n", "p",
               "m">>>>), Spaces1,
                Words(<<<<"i", "n", "s", "t", "a", "l", "l">>, <<"r", "u", "n">>, <<"s", "t",
                        "a", "r", "t">>, <<"b", "u", "i", "l", "d">>, <<"d", "e", "v">>, <<"t",
                        "e", "s", "t">>,
                        <<"i", "n", "i", "t">>, <<"c", "r", "e", "a", "t", "e">>, <<"a", "d",
                                "d">>, <<"r", "e", "m", "o", "v", "e">>>>)>>],
      [fl |-> NoFlags,
       re |-> <<Bol, Lit(<<"g", "i", "t">>), Spaces1,
                Words(<<<<"a", "d", "d">>, <<"c", "o", "m", "m", "i", "t">>, <<"p", "u", "s",
                        "h">>, <<"p", "u", "l", "l">>, <<"c", "l", "o", "n", "e">>, <<"s", "t",
                        "a", "t", "u", "s">>,
                        <<"c", "h", "e", "c", "k", "o", "u", "t">>, <<"b", "r", "a", "n", "c",
                                "h">>, <<"m", "e", "r", "g", "e">>, <<"r", "e", "b", "a", "s",
                                "e">>, <<"i", "n", "i", "t">>,
                        <<"r", "e", "m", "o", "t", "e">>, <<"f", "e", "t", "c", "h">>, <<"l",
                                "o", "g">>>>)>>],
      StartsWithWord(<<<<"d", "o", "c", "k", "e", "r">>, <<"d", "o", "c", "k", "e", "r", "-",
              "c", "o", "m", "p", "o", "s", "e">>>>, <<Spaces1>>),
      StartsWithWord(<<<<"m", "a", "k", "e">>, <<"c", "m", "a", "k", "e">>, <<"g", "r", "a",
              "d", "l", "e">>, <<"m", "v", "n">>, <<"c", "a", "r", "g", "o">>, <<"g", "o">>>>,
                     <<Spaces1>>),
      StartsWithWord(<<<<"c", "u", "r", "l">>, <<"w", "g", "e", "t">>, <<"p", "i", "n", "g">>,
              <<"s", "s", "h">>, <<"s", "c", "p">>, <<"r", "s", "y", "n", "c">>>>,
                     <<Spaces1>>),
      StartsWithWord(<<<<"c", "a", "t">>, <<"c", "h", "m", "o", "d">>, <<"c", "p">>, <<"e",
              "c", "h", "o">>, <<"h", "o", "s", "t", "n", "a", "m", "e">>, <<"k", "i", "l",
              "l">>, <<"l", "n">>,
                       <<"l", "s">>, <<"m", "k", "d", "i", "r">>, <<"m", "v">>, <<"p", "s">>,
                               <<"p", "w", "d">>, <<"r", "m">>, <<"r", "m", "d", "i", "r">>,
                               <<"x", "x", "d">>>>,
                     <<Spaces0>>),
      StartsWithWord(<<<<"n", "o", "d", "e">>, <<"p", "y", "t", "h", "o", "n">>, <<"p", "y",
              "t", "h", "o", "n", "3">>, <<"j", "a", "v", "a">>, <<"g", "o">>, <<"r", "u", "s",
              "t">>,
                       <<"r", "u", "b", "y">>, <<"p", "h", "p">>, <<"p", "e", "r", "l">>>>,
                               <<Spaces1>>),
      StartsWithWord(<<<<"g", "r", "e", "p">>, <<"s", "e", "d">>, <<"a", "w", "k">>, <<"c",
              "u", "t">>, <<"t", "r">>, <<"s", "o", "r", "t">>, <<"u", "n", "i", "q">>,
                       <<"w", "c">>, <<"d", "i", "f", "f">>>>, <<Spaces1>>),
      StartsWithWord(<<<<"t", "a", "r">>, <<"z", "i", "p">>, <<"u", "n", "z", "i", "p">>,
              <<"g", "z", "i", "p">>, <<"g", "u", "n", "z", "i", "p">>>>, <<Spaces1>>),
      StartsWithWord(<<<<"p", "s">>, <<"t", "o", "p">>, <<"h", "t", "o", "p">>, <<"k", "i",
              "l", "l">>, <<"k", "i", "l", "l", "a", "l", "l">>, <<"j", "o", "b", "s">>,
                       <<"n", "o", "h", "u", "p">>>>, <<Spaces0>>),
      StartsWithWord(<<<<"d", "f">>, <<"d", "u">>, <<"f", "r", "e", "e">>, <<"u", "n", "a",
              "m", "e">>, <<"w", "h", "o", "a", "m", "i">>, <<"i", "d">>, <<"g", "r", "o", "u",
              "p", "s">>,
                       <<"d", "a", "t", "e">>, <<"u", "p", "t", "i", "m", "e">>>>,
                               <<Spaces0>>)>>

\* The prefixPatterns of isSingleLineCommand.
prefixPatterns ==
    <<StartsWithWord(<<<<"s", "u", "d", "o">>>>, <<Spaces1>>),
      StartsWithWord(<<<<"t", "i", "m", "e">>>>, <<Spaces1>>),
      StartsWithWord(<<<<"n", "o", "h", "u", "p">>>>, <<Spaces1>>),
      StartsWithWord(<<<<"w", "a", "t", "c", "h">>>>, <<Spaces1>>),
      StartsWithWord(<<<<"e", "n", "v">>>>, <<Spaces1, Word1, Lit(<<"=">>), Word1, Spaces1>>)>>

\* The scriptIndicators of looksLikeScriptContent.
scriptIndicators ==
    <<[fl |-> NoFlags, re |-> <<Bol, Lit(<<"#", "!">>)>>],
      [fl |-> NoFlags, re |-> <<Lit(<<"f", "u", "n", "c", "t", "i", "o", "n">>), Spaces1,
              Word1>>],
      [fl |-> NoFlags,
       re |-> <<Bol, Word1, Spaces0, Lit(<<"(">>), Spaces0, Lit(<<")">>), Spaces0,
               Lit(<<"{">>)>>],
      StartsWithWord(<<<<"i", "f">>, <<"f", "o", "r">>, <<"w", "h", "i", "l", "e">>, <<"c",
              "a", "s", "e">>>>,
                     <<Spaces1, LazyStar(NoneOf({"\n", "\r"})),
                       Words(<<<<"t", "h", "e", "n">>, <<"d", "o">>, <<"i", "n">>>>)>>),
      [fl |-> NoFlags,
       re |-> <<Bol, Word1, Lit(<<"=">>), NoneOf({"="}), Star(NoneOf({"\n", "\r"})), Eoi>>],
      StartsWithWord(<<<<"l", "o", "c", "a", "l">>, <<"d", "e", "c", "l", "a", "r", "e">>,
              <<"r", "e", "a", "d", "o", "n", "l", "y">>>>, <<Spaces1>>),
      StartsWithWord(<<<<"s", "o", "u", "r", "c", "e">>, <<".">>>>, <<Spaces1>>),
      StartsWithWord(<<<<"e", "x", "i", "t">>, <<"r", "e", "t", "u", "r", "n">>>>, <<Spaces1,
              Plus(OneOf(Digits))>>)>>

\* [a-z]  [a-z0-9-_]  [a-z0-9-_./]
Letter == OneOf(Range(LowerCase))
NameChar == OneOf(Range(LowerCase) \cup Digits \cup {"-", "_"})
PathChar == OneOf(Range(LowerCase) \cup Digits \cup {"-", "_", ".", "/"})

\* The commandLikePatterns of isSimpleCommand.
commandLikePatterns ==
    <<[fl |-> FlagsI, re |-> <<Bol, Letter, Star(NameChar), Eoi>>],
      [fl |-> FlagsI, re |-> <<Bol, Lit(<<".", "/">>), Plus(PathChar), Eoi>>],
      [fl |-> FlagsI, re |-> <<Bol, Lit(<<"/">>), Plus(PathChar), Eoi>>],
      [fl |-> FlagsI,
       re |-> <<Bol, Letter, Star(NameChar), Spaces1, Lit(<<"-">>),
                Plus(NoneOf({"\n", "\r"}))>>]>>

\* One line of looksLikeScriptContent's loop: the line counts as script.
scriptLine(trimmedLine) ==
    /\ Len(trimmedLine) # 0
    /\ ~ startsWith(trimmedLine, <<"#">>)
    /\ SomeTest(scriptIndicators, trimmedLine)

\* looksLikeScriptContent(content)
looksLikeScriptContent(content) ==
    \E line \in Range(Split(Trim(content), "\n")) : scriptLine(Trim(line))

\* isSimpleCommand(line), firstWord being line.split(/\s+/)[0].
isSimpleCommandOf(line, firstWord) ==
    IF /\ Includes(line, <<"=">>)
       /\ ~ startsWith(line, <<"e", "x", "p", "o", "r", "t", " ">>)
       /\ ~ startsWith(line, <<"e", "n", "v", " ">>)
       /\ ~ Includes(firstWord, <<"=">>)
    THEN FALSE
    ELSE IF \/ Includes(line, <<"f", "u", "n", "c", "t", "i", "o", "n", " ">>)
            \/ Test(<<Bol, Word1, Spaces0, Lit(<<"(">>), Spaces0, Lit(<<")">>)>>, line, NoFlags)
    THEN FALSE
    ELSE IF Test(<<Bol, Words(<<<<"i", "f">>, <<"f", "o", "r">>, <<"w", "h", "i", "l", "e">>,
            <<"c", "a", "s", "e">>, <<"f", "u", "n", "c", "t", "i", "o", "n">>,
                                <<"u", "n", "t", "i", "l">>, <<"s", "e", "l", "e", "c",
                                        "t">>>>),
                   OneOf(SpaceChars)>>, line, NoFlags)
    THEN FALSE
    ELSE SomeTest(commandLikePatterns, firstWord)

isSimpleCommand(line) ==
    isSimpleCommandOf(line, SplitRx(<<Spaces1>>, line, NoFlags)[1])

\* [;&|]{1,2}
Chaining == <<Rep(<<OneOf({";", "&", "|"})>>, 1, 2, FALSE)>>

\* The for loop over prefixPatterns: cleanLine = cleanLine.replace(prefix, '')
RECURSIVE stripPrefixes(_, _)
stripPrefixes(cleanLine, prefixes) ==
    IF prefixes = <<>> THEN cleanLine
    ELSE stripPrefixes(RemoveFirst(Head(prefixes).re, cleanLine, Head(prefixes).fl),
                       Tail(prefixes))

\* isSingleLineCommand past the chaining test, on the line without prefixes.
isCleanLineCommand(cleanLine) ==
    SomeTest(commandPatterns, cleanLine) \/ isSimpleCommand(cleanLine)

\* isSingleLineCommand(line)
isSingleLineCommand(line) ==
    IF Test(Chaining, line, NoFlags)
    THEN \A part \in Range(TrimAll(SplitRx(Chaining, line, NoFlags))) :
            Len(part) > 0 /\ ~ looksLikeScriptContent(part)
    ELSE isCleanLineCommand(stripPrefixes(line, prefixPatterns))

\* The filter of isCommandSequence: the lines that look like commands.
commandLike(line) ==
    /\ Len(line) > 0
    /\ ~ startsWith(line, <<"#">>)
    /\ (isSingleLineCommand(line) \/ isSimpleCommand(line))

\* A sequence test that lets a ratio of exactly 0.7 through.
isCommandSequenceFrom70(lines) ==
    10 * Cardinality({k \in DOMAIN lines : commandLike(lines[k])}) >= 7 * Len(lines)

\* isCommandSequence(lines): commandLikeLines.length / lines.length > 0.7
isCommandSequence(lines) ==
    10 * Cardinality({k \in DOMAIN lines : commandLike(lines[k])}) > 7 * Len(lines)

shellLanguages ==
    {<<"b", "a", "s", "h">>, <<"s", "h">>, <<"s", "h", "e", "l", "l">>, <<"z", "s", "h">>,
            <<"f", "i", "s", "h">>, <<"p", "o", "w", "e", "r", "s", "h", "e", "l", "l">>,
            <<"p", "s", "1">>}

\* isShellCommand past the language test, lines being the trimmed, non-empty
\* lines of trimmedContent.
isShellLines(trimmedContent, lines) ==
    IF Len(lines) = 0 THEN FALSE
    ELSE IF looksLikeScriptContent(trimmedContent) THEN FALSE
    ELSE IF Len(lines) = 1 THEN isSingleLineCommand(lines[1])
    ELSE isCommandSequence(lines)

\* isShellCommand(content, language)
isShellCommand(content, language) ==
    IF ToLowerCase(language) \notin shellLanguages THEN FALSE
    ELSE isShellLines(Trim(content), NonEmpty(TrimAll(Split(Trim(content), "\n"))))

----------------------------------------------------------------------------
(* EnhancedMessageParser: detection, classification and parse.             *)

\* The texts parse is called with: a file block, the same followed by a
\* shell block, a block with a path that is no real file, a file operation
\* and a longer one, and markup without a name.
EmInputs ==
    { <<"a", ".", "j", "s", "\n", Backtick, Backtick, Backtick, "j", "s", "\n", "x", Backtick,
            Backtick, Backtick>>,
      <<"a", ".", "j", "s", "\n", Backtick, Backtick, Backtick, "j", "s", "\n", "x", Backtick,
              Backtick, Backtick, "\n", "b", ".", "s", "h", "\n", Backtick, Backtick, Backtick,
              "s", "h", "\n", "l", "s", Backtick, Backtick, Backtick>>,
      <<"t", "m", "p", "/", "a", ".", "j", "s", "\n", Backtick, Backtick, Backtick, "j", "s",
              "\n", "x", Backtick, Backtick, Backtick>>,
      <<"s", "a", "v", "e", " ", "f", "i", "l", "e", " ", "a", ".", "j", "s", " ", "w", "i",
              "t", "h", " ", "c", "o", "n", "t", "e", "n", "t", ":", "\n", "x">>,
      <<"s", "a", "v", "e", " ", "f", "i", "l", "e", " ", "a", ".", "j", "s", " ", "w", "i",
              "t", "h", " ", "c", "o", "n", "t", "e", "n", "t", ":", "\n", "x", "y">>,
      <<Backtick, Backtick, Backtick, "j", "s", "x", "\n", "<", "a", ">", "b", "<", "/", "a",
              ">", Backtick, Backtick, Backtick>> }

\* The values Date.now() takes.
EmTimes == {1, 2}

\* How many calls of parse a run makes.
MaxParses == 2

\* The block pushed for a match of pattern 1, 2 or 4.
pathFirstBlock(input, type, m) ==
    [match |-> Substring(input, m.start, m.end),
     type |-> type,
     filePath |-> normalizeFilePath(Group(input, m, 1).text),
     language |-> Group(input, m, 2).text,
     content |-> Group(input, m, 3).text]

\* The block pushed for a match of pattern 3.
commentFilenameBlock(input, m) ==
    [match |-> Substring(input, m.start, m.end),
     type |-> "comment_filename",
     filePath |-> normalizeFilePath(Group(input, m, 2).text),
     language |-> Group(input, m, 1).text,
     content |-> Group(input, m, 3).text]

\* The block pushed for a match of pattern 5.  The pattern's source holds
\* the text 'json', so the language is always 'json'.
structuredFileBlock(input, m, now) ==
    [match |-> Substring(input, m.start, m.end),
     type |-> "structured_file",
     filePath |-> normalizeFilePath(
                      inferFileNameFromContent(Group(input, m, 1).text, <<"j", "s", "o", "n">>,
                              now)),
     language |-> <<"j", "s", "o", "n">>,
     content |-> Group(input, m, 1).text]

pathFirstBlocks(input, type, ms) ==
    [k \in DOMAIN ms |-> pathFirstBlock(input, type, ms[k])]

commentFilenameBlocks(input, ms) ==
    [k \in DOMAIN ms |-> commentFilenameBlock(input, ms[k])]

structuredFileBlocks(input, ms, now) ==
    [k \in DOMAIN ms |-> structuredFileBlock(input, ms[k], now)]

\* detectCodeBlocks(input), when Date.now() is now: the blocks of the five
\* patterns, pattern by pattern.
detectCodeBlocks(input, now) ==
    pathFirstBlocks(input, "file_path", ExecAll(filePathPattern, input, 0, FlagsIM))
    \o pathFirstBlocks(input, "explicit_create",
                       ExecAll(explicitCreatePattern, input, 0, FlagsI))
    \o commentFilenameBlocks(input, ExecAll(commentFilenamePattern, input, 0, FlagsI))
    \o pathFirstBlocks(input, "in_filename",
                       ExecAll(inFilenamePattern, input, 0, FlagsI))
    \o structuredFileBlocks(input, ExecAll(structuredFilePattern, input, 0, FlagsI), now)

fileOperation(input, m) ==
    [match |-> Substring(input, m.start, m.end),
     filePath |-> normalizeFilePath(Group(input, m, 1).text),
     content |-> Trim(Group(input, m, 2).text)]

fileOperations(input, ms) == [k \in DOMAIN ms |-> fileOperation(input, ms[k])]

\* detectFileOperations(input)
detectFileOperations(input) ==
    fileOperations(input, ExecAll(fileOperationPattern, input, 0, FlagsI))

\* What detection finds in each of the texts: detection depends on nothing
\* but its arguments.
detected ==
    [input \in EmInputs, now \in EmTimes |->
        [codeBlocks |-> detectCodeBlocks(input, now),
         fileOperations |-> detectFileOperations(input)]]

\* classifyBlock(block, messageId), when this.artifactCounter is counter.
classifyBlock(block, messageId, counter) ==
    IF isShellCommand(block.content, block.language)
    THEN [type |-> "command", content |-> Trim(block.content),
          artifactId |-> <<"command", messageId, counter>>]
    ELSE IF isValidFilePath(block.filePath)
    THEN [type |-> "file", content |-> block.content, filePath |-> block.filePath,
          language |-> block.language,
          artifactId |-> <<"file", messageId, counter>>]
    ELSE Null

\* How many lines the shell blocks of the model have, at most.
MaxLines == 10

\* The lines of the model's shell blocks: a command, a command sent to the
\* background, a comment with a pipe in it, and a line that is no command.
ShCommandLines == { <<"l", "s">>, <<"l", "s", " ", "&">> }
ShOtherLines == { <<"#", " ", "a", "|", "b">>, <<"1">> }

\* The shell blocks: some lines of one kind followed by some of another.
ShBlocks ==
    { [i \in 1..(k + m) |-> IF i <= k THEN a ELSE b] :
        a \in ShCommandLines, b \in ShOtherLines,
        k \in 0..MaxLines, m \in 0..MaxLines } \ {<<>>}

\* classifyBlock was not called yet.
Unclassified == [type |-> "unclassified"]

\* lines.join("\n")
RECURSIVE JoinLines(_)
JoinLines(lines) ==
    IF Len(lines) = 0 THEN <<>>
    ELSE IF Len(lines) = 1 THEN lines[1]
    ELSE lines[1] \o <<"\n">> \o JoinLines(Tail(lines))

\* classifyBlock(block, messageId) on a block of language sh that names no
\* file and holds the lines of sh_lines.
classifyShellBlock ==
    /\ sh_result = Unclassified
    /\ sh_result' = classifyBlock([content |-> JoinLines(sh_lines),
                                   language |-> <<"s", "h">>,
                                   filePath |-> <<>>], "m1", 0)
    /\ UNCHANGED sh_lines

shInit ==
    /\ sh_lines = <<>>
    /\ sh_result = Unclassified

\* parseFileOperation(operation, messageId)
parseFileOperation(operation, messageId, counter) ==
    IF isValidFilePath(operation.filePath)
    THEN [type |-> "file", content |-> operation.content,
          filePath |-> operation.filePath,
          artifactId |-> <<"file", messageId, counter>>]
    ELSE Null

\* processed.add(blockHash) left out.
markProcessedNot(processed, blockHash) == processed

\* processed.add(blockHash)
markProcessed(processed, blockHash) == processed \cup {blockHash}

\* if (parsed) results.push(parsed); match is the text the block matched.
pushParsed(acc, match, parsed) ==
    IF parsed = Null THEN acc
    ELSE [acc EXCEPT !.results = Append(@, parsed),
                     !.matches = Append(@, match),
                     !.artifactCounter = @ + 1]

\* One pass of the loop over codeBlocks.
codeBlockPass(acc, block, messageId, blockHash) ==
    IF blockHash \in acc.processed THEN acc
    ELSE pushParsed([acc EXCEPT !.processed = markProcessed(@, blockHash)],
                    block.match,
                    classifyBlock(block, messageId, acc.artifactCounter))

RECURSIVE codeBlocksLoop(_, _, _)
codeBlocksLoop(acc, blocks, messageId) ==
    IF blocks = <<>> THEN acc
    ELSE codeBlocksLoop(
            codeBlockPass(acc, Head(blocks), messageId, hashBlock(Head(blocks).match)),
            Tail(blocks), messageId)

\* One pass of the loop over fileOperations.
fileOperationPass(acc, operation, messageId, blockHash) ==
    IF blockHash \in acc.processed THEN acc
    ELSE pushParsed([acc EXCEPT !.processed = markProcessed(@, blockHash)],
                    operation.match,
                    parseFileOperation(operation, messageId, acc.artifactCounter))

RECURSIVE fileOperationsLoop(_, _, _)
fileOperationsLoop(acc, operations, messageId) ==
    IF operations = <<>> THEN acc
    ELSE fileOperationsLoop(
            fileOperationPass(acc, Head(operations), messageId,
                              hashBlock(Head(operations).match)),
            Tail(operations), messageId)

\* The two loops of parse over what was detected, from the set of hashes
\* processed and the counter: the set and the counter afterwards, the list
\* returned, and the text each returned entry matched.
parseLoop(processed, counter, messageId, found) ==
    fileOperationsLoop(
        codeBlocksLoop([processed |-> processed, artifactCounter |-> counter,
                        results |-> <<>>, matches |-> <<>>],
                       found.codeBlocks, messageId),
        found.fileOperations, messageId)

\* this.processedBlocks.get(messageId) after lines 36 to 38.
processedOf(messageId) ==
    IF messageId \in DOMAIN processedBlocks THEN processedBlocks[messageId] ELSE {}

\* How many calls of parse were made since the last reset.
ParsesMade == Len(em_calls)

\* parse(messageId, input), when Date.now() is now.
EnhancedMessageParser_parse(messageId, input, now) ==
    /\ ParsesMade < MaxParses
    /\ \E r \in {parseLoop(processedOf(messageId), artifactCounter, messageId,
                           detected[input, now])} :
          /\ processedBlocks' =
                (messageId :> r.processed) @@ processedBlocks
          /\ artifactCounter' = r.artifactCounter
          /\ em_calls' = Append(em_calls,
                                [messageId |-> messageId, input |-> input,
                                 results |-> r.results, matches |-> r.matches])

\* reset()
EnhancedMessageParser_reset ==
    /\ processedBlocks' = <<>>
    /\ artifactCounter' = 0
    /\ em_calls' = <<>>

emInit ==
    /\ processedBlocks = <<>>
    /\ artifactCounter = 0
    /\ em_calls = <<>>

----------------------------------------------------------------------------
(* DiffTracker (src/lib/diff-tracker.ts): snapshots of the file tree and   *)
(* the changes between one snapshot and the next.  A tree is a function    *)
(* from paths to contents; ids and timestamps are left out.                *)

\* How many snapshots one run of the model takes.
MaxSnapshotCalls == 3

\* this.maxSnapshots
maxSnapshots == 50

\* The paths of the model's trees, in the order their keys are listed.
DtPathOrder == <<"a", "b">>

\* The contents of the model's files: "", "x", "y".
DtContents == { <<>>, <<"x">>, <<"y">> }

\* The trees createSnapshot is called with.
DtTrees == UNION { [S -> DtContents] : S \in SUBSET Range(DtPathOrder) }

\* Object.keys(files)
KeysOf(tree) == SelectSeq(DtPathOrder, LAMBDA p : p \in DOMAIN tree)

\* files[path]: undefined when the tree has no such path.
ContentAt(tree, path) == IF path \in DOMAIN tree THEN tree[path] ELSE Undefined

\* The truthiness of a content: undefined and '' are falsy.
Truthy(content) == content # Undefined /\ content # <<>>

\* new Set([...Object.keys(oldFiles), ...Object.keys(newFiles)]), in the
\* order of iteration.
allPaths(oldFiles, newFiles) ==
    KeysOf(oldFiles) \o SelectSeq(KeysOf(newFiles), LAMBDA p : p \notin DOMAIN oldFiles)

\* The body of the loop of calculateChanges for one path: the change
\* pushed, if any.
changeOf(path, oldContent, newContent) ==
    IF ~ Truthy(oldContent) /\ Truthy(newContent)
    THEN <<[path |-> path, type |-> "created",
            oldContent |-> Undefined, newContent |-> newContent]>>
    ELSE IF Truthy(oldContent) /\ ~ Truthy(newContent)
    THEN <<[path |-> path, type |-> "deleted",
            oldContent |-> oldContent, newContent |-> Undefined]>>
    ELSE IF Truthy(oldContent) /\ Truthy(newContent) /\ oldContent # newContent
    THEN <<[path |-> path, type |-> "modified",
            oldContent |-> oldContent, newContent |-> newContent]>>
    ELSE <<>>

\* calculateChanges(oldFiles, newFiles), over the paths still to visit.
RECURSIVE calculateChangesFrom(_, _, _)
calculateChangesFrom(paths, oldFiles, newFiles) ==
    IF paths = <<>> THEN <<>>
    ELSE changeOf(Head(paths), ContentAt(oldFiles, Head(paths)),
                  ContentAt(newFiles, Head(paths)))
         \o calculateChangesFrom(Tail(paths), oldFiles, newFiles)

\* calculateChanges(oldFiles, newFiles)
calculateChanges(oldFiles, newFiles) ==
    calculateChangesFrom(allPaths(oldFiles, newFiles), oldFiles, newFiles)

\* this.snapshots.slice(-this.maxSnapshots) when there are more.
keepLast(snapshots) ==
    IF Len(snapshots) > maxSnapshots
    THEN SubSeq(snapshots, Len(snapshots) - maxSnapshots + 1, Len(snapshots))
    ELSE snapshots

\* createSnapshot(files)
DiffTracker_createSnapshot(tree) ==
    /\ Len(dt_snapshots) < MaxSnapshotCalls
    /\ LET snapshot == [files |-> tree,
                        changes |-> IF dt_current # Null
                                    THEN calculateChanges(dt_current.files, tree)
                                    ELSE <<>>]
       IN /\ dt_snapshots' = keepLast(Append(dt_snapshots, snapshot))
          /\ dt_current' = snapshot
    /\ dt_prev' = IF dt_current # Null THEN dt_current.files ELSE Null

dtInit ==
    /\ dt_snapshots = <<>>
    /\ dt_current = Null
    /\ dt_prev = Null

----------------------------------------------------------------------------
(* useFileStore again, for filesCount: the file map with the type and the  *)
(* content of each entry (the lock fields play no part in the counters),   *)
(* filesCount and deletedPaths.  modifiedFiles is written and never read   *)
(* by these operations and is left out.                                    *)

\* The value of filesCount beyond which the model creates no file.
MaxFilesCount == 4

\* Object.values(files).filter(f => f?.type === 'file').length
countFiles(map) == Cardinality({p \in Paths : map[p].type = "file"})

\* createFile(filePath, content): the entry is written, filesCount + 1.
count_createFile(p, c) ==
    /\ filesCount < MaxFilesCount
    /\ fc_files' = [fc_files EXCEPT ![p] = [type |-> "file", content |-> c]]
    /\ filesCount' = filesCount + 1
    /\ UNCHANGED deletedPaths

\* updateFile(filePath, content): the content of an existing file.
count_updateFile(p, c) ==
    /\ fc_files' = IF fc_files[p].type = "file"
                   THEN [fc_files EXCEPT ![p].content = c] ELSE fc_files
    /\ UNCHANGED <<filesCount, deletedPaths>>

\* deleteFile(filePath): an existing file is removed, filesCount - 1, the
\* path joins deletedPaths.
count_deleteFile(p) ==
    IF fc_files[p].type = "file"
    THEN /\ fc_files' = [fc_files EXCEPT ![p] = NoEntry]
         /\ filesCount' = filesCount - 1
         /\ deletedPaths' = deletedPaths \cup {p}
    ELSE UNCHANGED <<fc_files, filesCount, deletedPaths>>

\* createFolder(folderPath): the entry is written.
count_createFolder(p) ==
    /\ fc_files' = [fc_files EXCEPT ![p] = [type |-> "folder"]]
    /\ UNCHANGED <<filesCount, deletedPaths>>

\* deleteFolder(folderPath): an existing folder and everything under it is
\* removed and joins deletedPaths, filesCount goes down by the files removed.
count_deleteFolder(p) ==
    IF fc_files[p].type = "folder"
    THEN LET gone == {q \in Paths : fc_files[q] # NoEntry
                                      /\ (q = p \/ underFolder(q, p))}
         IN /\ fc_files' = [q \in Paths |-> IF q \in gone THEN NoEntry ELSE fc_files[q]]
            /\ filesCount' = filesCount
                               - Cardinality({q \in gone : fc_files[q].type = "file"})
            /\ deletedPaths' = deletedPaths \cup gone
    ELSE UNCHANGED <<fc_files, filesCount, deletedPaths>>

\* cleanupDeletedFiles(): the entries at a deleted path or under one are
\* removed, filesCount goes down by the files removed.
cleanupDeletedFiles ==
    IF deletedPaths = {} THEN UNCHANGED <<fc_files, filesCount, deletedPaths>>
    ELSE LET pathsToDelete ==
                 {q \in Paths : /\ fc_files[q] # NoEntry
                                /\ \/ q \in deletedPaths
                                   \/ \E d \in deletedPaths : underFolder(q, d)}
         IN /\ fc_files' = [q \in Paths |->
                               IF q \in pathsToDelete THEN NoEntry ELSE fc_files[q]]
            /\ filesCount' = filesCount
                  - Cardinality({q \in pathsToDelete : fc_files[q].type = "file"})
            /\ UNCHANGED deletedPaths

\* reset()
count_reset ==
    /\ fc_files' = [p \in Paths |-> NoEntry]
    /\ filesCount' = 0
    /\ deletedPaths' = {}

fcInit ==
    /\ fc_files = [p \in Paths |-> NoEntry]
    /\ filesCount = 0
    /\ deletedPaths = {}

----------------------------------------------------------------------------
(* WebContainerManager: getWebContainer and teardown.  Each caller runs    *)
(* one call at a time; a call runs without interruption up to its next     *)
(* await, so each action below is the code between two awaits.  An         *)
(* instance is named by the number of the boot that produced it.           *)

\* The callers, the code hashes they pass (0: no hash given) and the number
\* of boots beyond which the model starts no further one.
WcCallers == {1, 2}
WcHashes == {0, 1, 2}
MaxBoots == 3

\* How WebContainer.boot settles: it resolves, or rejects with the "Only a
\* single WebContainer instance can be booted" error, or with another one.
BootOutcomes == {"resolved", "single", "other"}

\* What a call gave its caller: an instance, or Threw.
Threw == 0 - 1

IdleCall == [pc |-> "idle", codeHash |-> 0, boot |-> 0, toreDown |-> FALSE, result |-> 0]

\* The boots that WebContainer.boot has not settled yet.
bootsInFlight == {b \in 1..Len(wc_boots) : wc_boots[b] = "pending"}

\* isBooting = true; bootPromise = this.bootWebContainer(); the call then
\* awaits bootPromise.
startBoot(c, codeHash, toreDown) ==
    /\ Len(wc_boots) < MaxBoots
    /\ isBooting' = TRUE
    /\ wc_boots' = Append(wc_boots, "pending")
    /\ bootPromise' = Len(wc_boots) + 1
    /\ wc_call' = [wc_call EXCEPT ![c] = [pc |-> "booting", codeHash |-> codeHash,
                                          boot |-> Len(wc_boots) + 1,
                                          toreDown |-> toreDown, result |-> 0]]
    /\ UNCHANGED <<webcontainer, lastCodeHash>>

\* getWebContainer(codeHash) up to its first await or its return: the
\* instance is reused, or the call waits for the boot under way, or it
\* enters teardown() and awaits this.webcontainer.teardown(), or it starts a
\* boot.
getWebContainer(c, codeHash) ==
    /\ wc_call[c].pc = "idle"
    /\ IF webcontainer # 0 /\ (codeHash = 0 \/ codeHash = lastCodeHash)
       THEN /\ wc_call' = [wc_call EXCEPT ![c] = [IdleCall EXCEPT !.codeHash = codeHash,
                                                                  !.result = webcontainer]]
            /\ UNCHANGED <<webcontainer, isBooting, bootPromise, lastCodeHash, wc_boots>>
       ELSE IF isBooting /\ bootPromise # 0
       THEN /\ wc_call' = [wc_call EXCEPT ![c] = [IdleCall EXCEPT !.pc = "waiting",
                                                                  !.codeHash = codeHash,
                                                                  !.boot = bootPromise]]
            /\ UNCHANGED <<webcontainer, isBooting, bootPromise, lastCodeHash, wc_boots>>
       ELSE IF webcontainer # 0 /\ codeHash # 0 /\ codeHash # lastCodeHash
       THEN /\ wc_call' = [wc_call EXCEPT ![c] = [IdleCall EXCEPT !.pc = "teardown",
                                                                  !.codeHash = codeHash,
                                                                  !.toreDown = TRUE]]
            /\ UNCHANGED <<webcontainer, isBooting, bootPromise, lastCodeHash, wc_boots>>
       ELSE startBoot(c, codeHash, FALSE)

\* teardown() after its await: whether the instance's teardown returned or
\* threw, the finally block sets this.webcontainer to null.
teardown(c) ==
    /\ wc_call[c].pc = "teardown"
    /\ webcontainer' = 0
    /\ wc_call' = [wc_call EXCEPT ![c].pc = "tornDown"]
    /\ UNCHANGED <<isBooting, bootPromise, lastCodeHash, wc_boots>>

\* getWebContainer after await this.teardown(): the new boot is started
\* without looking at isBooting again.
getWebContainer_afterTeardown(c) ==
    /\ wc_call[c].pc = "tornDown"
    /\ startBoot(c, wc_call[c].codeHash, TRUE)

\* WebContainer.boot settles.
bootWebContainer_settle(b, outcome) ==
    /\ b \in bootsInFlight
    /\ wc_boots' = [wc_boots EXCEPT ![b] = outcome]
    /\ UNCHANGED <<webcontainer, isBooting, bootPromise, lastCodeHash, wc_call>>

\* getWebContainer after await this.bootPromise: the instance and the hash
\* are stored, or the error is handled; the finally block clears isBooting
\* and bootPromise either way.
getWebContainer_settle(c) ==
    /\ wc_call[c].pc = "booting"
    /\ wc_boots[wc_call[c].boot] # "pending"
    /\ LET b == wc_call[c].boot
           ok == wc_boots[b] = "resolved"
       IN  /\ webcontainer' = IF ok THEN b ELSE webcontainer
           /\ lastCodeHash' = IF ok THEN wc_call[c].codeHash ELSE lastCodeHash
           /\ wc_call' = [wc_call EXCEPT ![c].pc = "idle",
                            ![c].result = IF ok THEN b
                                          ELSE IF wc_boots[b] = "single" /\ webcontainer # 0
                                               THEN webcontainer
                                               ELSE Threw]
    /\ isBooting' = FALSE
    /\ bootPromise' = 0
    /\ UNCHANGED wc_boots

\* A caller that was handed bootPromise gets that boot's result.
bootPromise_settle(c) ==
    /\ wc_call[c].pc = "waiting"
    /\ wc_boots[wc_call[c].boot] # "pending"
    /\ wc_call' = [wc_call EXCEPT ![c].pc = "idle",
                     ![c].result = IF wc_boots[wc_call[c].boot] = "resolved"
                                   THEN wc_call[c].boot ELSE Threw]
    /\ UNCHANGED <<webcontainer, isBooting, bootPromise, lastCodeHash, wc_boots>>

wcInit ==
    /\ webcontainer = 0
    /\ isBooting = FALSE
    /\ bootPromise = 0
    /\ lastCodeHash = 0
    /\ wc_boots = <<>>
    /\ wc_call = [c \in WcCallers |-> IdleCall]

----------------------------------------------------------------------------
(* Specifications: one per component, all from the same initial state.     *)

Init ==
    cqInit /\ fsInit /\ peInit /\ duInit /\ spInit /\ emInit /\ hgInit /\ shInit /\ dtInit /\ fcInit /\ wcInit /\ sp_message = <<>>

\* The parser's runs start with any of the messages.
InitParser ==
    cqInit /\ fsInit /\ peInit /\ duInit /\ spInit /\ emInit /\ hgInit /\ shInit /\ dtInit /\ fcInit /\ wcInit
    /\ sp_message \in Messages

NextQueue ==
    \/ CommandQueue_addCommand /\ UNCHANGED <<fsVars, peVars, duVars, spVars, emVars, hgVars, shVars, dtVars, fcVars, wcVars>>
    \/ \E id \in CommandIds, ok \in BOOLEAN :
          executeCommand_settle(id, ok) /\ UNCHANGED <<fsVars, peVars, duVars, spVars, emVars, hgVars, shVars, dtVars, fcVars, wcVars>>
    \/ clearCompleted /\ UNCHANGED <<fsVars, peVars, duVars, spVars, emVars, hgVars, shVars, dtVars, fcVars, wcVars>>
    \/ \E id \in CommandIds : retryCommand(id) /\ UNCHANGED <<fsVars, peVars, duVars, spVars, emVars, hgVars, shVars, dtVars, fcVars, wcVars>>

SpecQueue == Init /\ [][NextQueue]_vars

\* Every executor call eventually settles: the promise executeCommand awaits
\* is resolved or rejected by the executor's timer, whatever else happens.
FairQueue ==
    \A id \in CommandIds :
        WF_vars(\E ok \in BOOLEAN :
                   executeCommand_settle(id, ok)
                   /\ UNCHANGED <<fsVars, peVars, duVars, spVars, emVars, hgVars, shVars, dtVars, fcVars, wcVars>>)

SpecQueueFair == Init /\ [][NextQueue]_vars /\ FairQueue

NextStore ==
    \/ \E p \in Paths, c \in Contents : createFile(p, c) /\ UNCHANGED <<cqVars, peVars, duVars, spVars, emVars, hgVars, shVars, dtVars, fcVars, wcVars>>
    \/ \E p \in Paths, c \in Contents : updateFile(p, c) /\ UNCHANGED <<cqVars, peVars, duVars, spVars, emVars, hgVars, shVars, dtVars, fcVars, wcVars>>
    \/ \E p \in Paths : deleteFile(p) /\ UNCHANGED <<cqVars, peVars, duVars, spVars, emVars, hgVars, shVars, dtVars, fcVars, wcVars>>
    \/ \E p \in Paths : createFolder(p) /\ UNCHANGED <<cqVars, peVars, duVars, spVars, emVars, hgVars, shVars, dtVars, fcVars, wcVars>>
    \/ \E p \in Paths : deleteFolder(p) /\ UNCHANGED <<cqVars, peVars, duVars, spVars, emVars, hgVars, shVars, dtVars, fcVars, wcVars>>
    \/ \E p \in Paths : lockFile(p) /\ UNCHANGED <<cqVars, peVars, duVars, spVars, emVars, hgVars, shVars, dtVars, fcVars, wcVars>>
    \/ \E p \in Paths : unlockFile(p) /\ UNCHANGED <<cqVars, peVars, duVars, spVars, emVars, hgVars, shVars, dtVars, fcVars, wcVars>>
    \/ \E p \in Paths : lockFolder(p) /\ UNCHANGED <<cqVars, peVars, duVars, spVars, emVars, hgVars, shVars, dtVars, fcVars, wcVars>>
    \/ \E p \in Paths : unlockFolder(p) /\ UNCHANGED <<cqVars, peVars, duVars, spVars, emVars, hgVars, shVars, dtVars, fcVars, wcVars>>

SpecStore == Init /\ [][NextStore]_vars

NextPatch ==
    \/ \E orig \in Originals, segs \in SegmentLists, pad \in {<<>>, <<" ">>} :
          applyDiffPatches_call(orig, segs, pad) /\ UNCHANGED <<cqVars, fsVars, duVars, spVars, emVars, hgVars, shVars, dtVars, fcVars, wcVars>>
    \/ applyDiffPatches_iterate /\ UNCHANGED <<cqVars, fsVars, duVars, spVars, emVars, hgVars, shVars, dtVars, fcVars, wcVars>>

SpecPatch == Init /\ [][NextPatch]_vars

NextBatcher ==
    \/ \E path \in DuPaths :
          DebouncedUpdater_addFile(path) /\ UNCHANGED <<cqVars, fsVars, peVars, spVars, emVars, hgVars, shVars, dtVars, fcVars, wcVars>>
    \/ DebouncedUpdater_addCommand /\ UNCHANGED <<cqVars, fsVars, peVars, spVars, emVars, hgVars, shVars, dtVars, fcVars, wcVars>>
    \/ \E d \in 0..MaxTime : timerFires(d) /\ UNCHANGED <<cqVars, fsVars, peVars, spVars, emVars, hgVars, shVars, dtVars, fcVars, wcVars>>
    \/ DebouncedUpdater_flush /\ UNCHANGED <<cqVars, fsVars, peVars, spVars, emVars, hgVars, shVars, dtVars, fcVars, wcVars>>
    \/ \E ok \in BOOLEAN : processBatch_settle(ok) /\ UNCHANGED <<cqVars, fsVars, peVars, spVars, emVars, hgVars, shVars, dtVars, fcVars, wcVars>>
    \/ tick /\ UNCHANGED <<cqVars, fsVars, peVars, spVars, emVars, hgVars, shVars, dtVars, fcVars, wcVars>>

SpecBatcher == Init /\ [][NextBatcher]_vars

\* Time passes, a timer that is due fires, and every handler call settles.
FairBatcher ==
    /\ WF_vars(tick /\ UNCHANGED <<cqVars, fsVars, peVars, spVars, emVars, hgVars, shVars, dtVars, fcVars, wcVars>>)
    /\ WF_vars(\E d \in 0..MaxTime :
                  timerFires(d) /\ UNCHANGED <<cqVars, fsVars, peVars, spVars, emVars, hgVars, shVars, dtVars, fcVars, wcVars>>)
    /\ WF_vars(\E ok \in BOOLEAN :
                  processBatch_settle(ok)
                  /\ UNCHANGED <<cqVars, fsVars, peVars, spVars, emVars, hgVars, shVars, dtVars, fcVars, wcVars>>)

SpecBatcherFair == Init /\ [][NextBatcher]_vars /\ FairBatcher

NextParser ==
    \/ \E id \in StreamIds, n \in CutPoints(sp_message) :
          StreamingParser_parse(id, n) /\ UNCHANGED <<cqVars, fsVars, peVars, duVars, emVars, hgVars, shVars, dtVars, fcVars, wcVars>>
    \/ \E id \in StreamIds :
          StreamingParser_clear(id) /\ UNCHANGED <<cqVars, fsVars, peVars, duVars, emVars, hgVars, shVars, dtVars, fcVars, wcVars>>

SpecParser == InitParser /\ [][NextParser]_vars

\* Two sessions on one parser, handed the first of the messages.
InitSessions ==
    cqInit /\ fsInit /\ peInit /\ duInit /\ spInit /\ emInit /\ hgInit /\ shInit /\ dtInit /\ fcInit /\ wcInit
    /\ sp_message = SessionMessage

NextSessions ==
    \/ \E id \in MsgIds, n \in PieceEnds(sp_message) :
          StreamingParser_parseAny(id, n) /\ UNCHANGED <<cqVars, fsVars, peVars, duVars, emVars, hgVars, shVars, dtVars, fcVars, wcVars>>
    \/ \E id \in MsgIds :
          StreamingParser_clear(id) /\ UNCHANGED <<cqVars, fsVars, peVars, duVars, emVars, hgVars, shVars, dtVars, fcVars, wcVars>>

SpecSessions == InitSessions /\ [][NextSessions]_vars

NextClassifier ==
    \/ \E messageId \in MsgIds, input \in EmInputs, now \in EmTimes :
          EnhancedMessageParser_parse(messageId, input, now)
          /\ UNCHANGED <<cqVars, fsVars, peVars, duVars, spVars, hgVars, shVars, dtVars, fcVars, wcVars>>
    \/ EnhancedMessageParser_reset /\ UNCHANGED <<cqVars, fsVars, peVars, duVars, spVars, hgVars, shVars, dtVars, fcVars, wcVars>>

SpecClassifier == Init /\ [][NextClassifier]_vars

\* classifyBlock is applied to each of the shell blocks.
InitShell ==
    /\ cqInit /\ fsInit /\ peInit /\ duInit /\ spInit /\ emInit /\ hgInit /\ dtInit /\ fcInit /\ wcInit
    /\ sp_message = <<>>
    /\ sh_lines \in {b \in ShBlocks : Len(b) <= MaxLines}
    /\ sh_result = Unclassified

NextShell ==
    classifyShellBlock
    /\ UNCHANGED <<cqVars, fsVars, peVars, duVars, spVars, emVars, hgVars, dtVars, fcVars, wcVars>>

SpecShell == InitShell /\ [][NextShell]_vars

NextTracker ==
    \E tree \in DtTrees :
        DiffTracker_createSnapshot(tree)
        /\ UNCHANGED <<cqVars, fsVars, peVars, duVars, spVars, emVars, hgVars, shVars, fcVars, wcVars>>

SpecTracker == Init /\ [][NextTracker]_vars

NextCount ==
    \/ \E p \in Paths, c \in Contents : count_createFile(p, c) /\ UNCHANGED <<cqVars, fsVars, peVars, duVars, spVars, emVars, hgVars, shVars, dtVars, wcVars>>
    \/ \E p \in Paths, c \in Contents : count_updateFile(p, c) /\ UNCHANGED <<cqVars, fsVars, peVars, duVars, spVars, emVars, hgVars, shVars, dtVars, wcVars>>
    \/ \E p \in Paths : count_deleteFile(p) /\ UNCHANGED <<cqVars, fsVars, peVars, duVars, spVars, emVars, hgVars, shVars, dtVars, wcVars>>
    \/ \E p \in Paths : count_createFolder(p) /\ UNCHANGED <<cqVars, fsVars, peVars, duVars, spVars, emVars, hgVars, shVars, dtVars, wcVars>>
    \/ \E p \in Paths : count_deleteFolder(p) /\ UNCHANGED <<cqVars, fsVars, peVars, duVars, spVars, emVars, hgVars, shVars, dtVars, wcVars>>
    \/ cleanupDeletedFiles /\ UNCHANGED <<cqVars, fsVars, peVars, duVars, spVars, emVars, hgVars, shVars, dtVars, wcVars>>
    \/ count_reset /\ UNCHANGED <<cqVars, fsVars, peVars, duVars, spVars, emVars, hgVars, shVars, dtVars, wcVars>>

SpecCount == Init /\ [][NextCount]_vars

NextContainer ==
    \/ \E c \in WcCallers, codeHash \in WcHashes : getWebContainer(c, codeHash) /\ UNCHANGED <<cqVars, fsVars, peVars, duVars, spVars, emVars, hgVars, shVars, dtVars, fcVars>>
    \/ \E c \in WcCallers : teardown(c) /\ UNCHANGED <<cqVars, fsVars, peVars, duVars, spVars, emVars, hgVars, shVars, dtVars, fcVars>>
    \/ \E c \in WcCallers : getWebContainer_afterTeardown(c) /\ UNCHANGED <<cqVars, fsVars, peVars, duVars, spVars, emVars, hgVars, shVars, dtVars, fcVars>>
    \/ \E b \in 1..MaxBoots, outcome \in BootOutcomes : bootWebContainer_settle(b, outcome) /\ UNCHANGED <<cqVars, fsVars, peVars, duVars, spVars, emVars, hgVars, shVars, dtVars, fcVars>>
    \/ \E c \in WcCallers : getWebContainer_settle(c) /\ UNCHANGED <<cqVars, fsVars, peVars, duVars, spVars, emVars, hgVars, shVars, dtVars, fcVars>>
    \/ \E c \in WcCallers : bootPromise_settle(c) /\ UNCHANGED <<cqVars, fsVars, peVars, duVars, spVars, emVars, hgVars, shVars, dtVars, fcVars>>

SpecContainer == Init /\ [][NextContainer]_vars

NextGenerate ==
    \/ \E isModification \in BOOLEAN :
          handleGenerate_begin(isModification)
          /\ UNCHANGED <<cqVars, fsVars, peVars, duVars, spVars, emVars, shVars, dtVars, fcVars, wcVars>>
    \/ handleGenerate_fail /\ UNCHANGED <<cqVars, fsVars, peVars, duVars, spVars, emVars, shVars, dtVars, fcVars, wcVars>>
    \/ \E responseFiles \in HgResponses :
          handleGenerate_done(responseFiles)
          /\ UNCHANGED <<cqVars, fsVars, peVars, duVars, spVars, emVars, shVars, dtVars, fcVars, wcVars>>

SpecGenerate == Init /\ [][NextGenerate]_vars

----------------------------------------------------------------------------
(* The claims.                                                             *)

\* C1: whenever a session has been handed strictly growing prefixes of a
\* message up to the whole message, onArtifactComplete has been handed
\* exactly the artifacts (ids, titles, action lists) that one parse of the
\* whole message on a fresh session hands it.
C1_PrefixesDeliverSameArtifacts ==
    \A id \in StreamIds :
        (/\ messages[id] # NoSession
         /\ messages[id].position = Len(Concat(sp_message)))
        => sp_completed[id] = parse(NoSession, id, Concat(sp_message)).completed

\* Whether a patch text holds a start marker, a later divider and a later
\* end marker.
HasTriplet(diff) ==
    \E i \in 0..Len(diff) :
        /\ MatchAt(diff, SEARCH_START, i)
        /\ \E j \in (i + 1)..Len(diff) :
              /\ MatchAt(diff, DIVIDER, j)
              /\ \E k \in (j + 1)..Len(diff) : MatchAt(diff, REPLACE_END, k)

\* Whether pat occurs somewhere in s.
Occurs(pat, s) == \E i \in 0..Len(s) : MatchAt(s, pat, i)

\* The first place where pat occurs in s.
FirstOccurrence(pat, s) ==
    CHOOSE i \in 0..Len(s) :
        MatchAt(s, pat, i) /\ \A j \in 0..(i - 1) : ~ MatchAt(s, pat, j)

\* The number of lines of a text: its newlines plus one.
LineCount(s) == 1 + Cardinality({i \in DOMAIN s : s[i] = "\n"})

\* Whether the first n segments of the patch text are whole blocks, so that
\* the n-th pass of the loop handles the n-th segment.
WholeBlocks(n) ==
    /\ n <= Len(pe_segs)
    /\ \A i \in 1..n : pe_segs[i].kind = "block"

\* C3: a patch text with no SEARCH / divider / REPLACE triplet returns the
\* original content, no touched range and hasChanges = false.
C3_NoTripletReturnsOriginal ==
    (pe_pc = "done" /\ ~ HasTriplet(diffContent)) =>
        /\ modifiedContent = originalContent
        /\ updatedLines = <<>>
        /\ hasChanges = FALSE

\* C3 witness: the function returned on a patch text that has a start
\* marker and a divider but no end marker, for a non-empty original.
C3_Witness_BrokenPatchReturned ==
    /\ pe_pc = "done"
    /\ ~ HasTriplet(diffContent)
    /\ Occurs(SEARCH_START, diffContent)
    /\ Occurs(DIVIDER, diffContent)
    /\ originalContent # <<>>

\* C4: a block whose trimmed search text is non-empty and occurs in the
\* current content replaces the first occurrence only, by exactly the
\* trimmed replace text, and records [s, s + L - 1], s being 1 plus the
\* number of newlines before the match and L the replace text's line count.
C4_FirstOccurrenceReplacedByReplaceText ==
    (pe_iter >= 1 /\ WholeBlocks(pe_iter)) =>
        LET b      == pe_segs[pe_iter]
            before == pe_prev.modifiedContent
        IN (b.search # <<>> /\ Occurs(b.search, before)) =>
             LET i == FirstOccurrence(b.search, before)
                 s == LineCount(SubSeq(before, 1, i))
             IN /\ modifiedContent =
                      SubSeq(before, 1, i) \o b.replace
                      \o SubSeq(before, i + Len(b.search) + 1, Len(before))
                /\ updatedLines =
                      Append(pe_prev.updatedLines,
                             <<s, s + LineCount(b.replace) - 1>>)
                /\ hasChanges

\* C4 without the replace texts that hold a "$" pattern.
C4_HoldsWithoutDollarPatterns ==
    (pe_iter >= 1 /\ WholeBlocks(pe_iter)) =>
        LET b      == pe_segs[pe_iter]
            before == pe_prev.modifiedContent
        IN (b.search # <<>> /\ Occurs(b.search, before) /\ ~ Occurs(<<"$">>, b.replace)) =>
             LET i == FirstOccurrence(b.search, before)
                 s == LineCount(SubSeq(before, 1, i))
             IN /\ modifiedContent =
                      SubSeq(before, 1, i) \o b.replace
                      \o SubSeq(before, i + Len(b.search) + 1, Len(before))
                /\ updatedLines =
                      Append(pe_prev.updatedLines,
                             <<s, s + LineCount(b.replace) - 1>>)
                /\ hasChanges

\* C5: a block whose search text is empty after trimming returns the
\* trimmed replace text, one newline, then the current content unchanged,
\* records [1, N], N being the replace text's line count, and sets
\* hasChanges.
C5_EmptySearchPrependsReplaceText ==
    (pe_iter >= 1 /\ WholeBlocks(pe_iter)) =>
        LET b      == pe_segs[pe_iter]
            before == pe_prev.modifiedContent
        IN b.search = <<>> =>
             /\ modifiedContent = b.replace \o <<"\n">> \o before
             /\ updatedLines =
                   Append(pe_prev.updatedLines, <<1, LineCount(b.replace)>>)
             /\ hasChanges

\* C5 witness: the second block of a patch had an empty search text and a
\* two-line replace text, and the content it met was not empty.
C5_Witness_InsertAfterEarlierBlock ==
    /\ pe_iter = 2
    /\ WholeBlocks(2)
    /\ pe_segs[2].search = <<>>
    /\ LineCount(pe_segs[2].replace) = 2
    /\ pe_prev.modifiedContent # <<>>
    /\ pe_prev.modifiedContent # originalContent

\* C6: with delay D, a file added, then a command added less than D later,
\* and nothing else added or flushed: the handler is called exactly once,
\* with one batch that holds both the file and the command, and no batch is
\* emitted before D has elapsed since the last addition.
C6_OneBatchWithBothAfterDelay ==
    ( /\ Len(du_adds) = 2
      /\ du_adds[1].kind = "file"
      /\ du_adds[2].kind = "command"
      /\ du_adds[2].time - du_adds[1].time < Delay
      /\ du_flushes = 0 ) =>
        /\ Len(du_batches) <= 1
        /\ \A i \in DOMAIN du_batches :
              /\ du_batches[i].time >= du_adds[2].time + Delay
              /\ DOMAIN du_batches[i].files = {du_adds[1].path}
              /\ du_batches[i].files[du_adds[1].path] = du_adds[1].item
              /\ du_batches[i].commands = <<du_adds[2].item>>
        /\ du_now > du_adds[2].time + Delay => Len(du_batches) = 1

\* C6 witness: a file was added, a command one tick later, and the one batch
\* came out when the delay had passed after the command.
C6_Witness_BatchAfterSecondAddition ==
    /\ Len(du_adds) = 2
    /\ du_adds[1].kind = "file"
    /\ du_adds[2].kind = "command"
    /\ du_adds[2].time = du_adds[1].time + 1
    /\ du_flushes = 0
    /\ Len(du_batches) = 1
    /\ du_batches[1].time = du_adds[2].time + Delay
    /\ du_now > du_batches[1].time

\* Whether a is a prefix of b.
IsPrefix(a, b) == Len(a) <= Len(b) /\ SubSeq(b, 1, Len(a)) = a

\* C7: for one messageId, when parse is called with a text and later with a
\* text that extends it, the later call returns no block whose matched text
\* an earlier call returned; when the two texts are equal, the later call
\* returns an empty list.
C7_ExtendedTextReturnsNoBlockAgain ==
    \A i \in DOMAIN em_calls : \A j \in DOMAIN em_calls :
        (/\ i < j
         /\ em_calls[i].messageId = em_calls[j].messageId
         /\ IsPrefix(em_calls[i].input, em_calls[j].input))
        => /\ Range(em_calls[i].matches) \cap Range(em_calls[j].matches) = {}
           /\ em_calls[i].input = em_calls[j].input => em_calls[j].results = <<>>

\* A call returned a block, and a later call for the same message with a
\* longer text that extends the first returned a block too.
C7_Witness_LaterCallReturnsNewBlock ==
    \E i \in DOMAIN em_calls : \E j \in DOMAIN em_calls :
        /\ i < j
        /\ em_calls[i].messageId = em_calls[j].messageId
        /\ IsPrefix(em_calls[i].input, em_calls[j].input)
        /\ Len(em_calls[i].input) < Len(em_calls[j].input)
        /\ em_calls[i].results # <<>>
        /\ em_calls[j].results # <<>>

\* C8: lockFolder(F) on an existing folder sets isLocked on F, and sets
\* isLocked = true and lockedByFolder = F on exactly the files that exist
\* under F + '/' at the time of the call (every other entry is left as it
\* was); createFile makes an unlocked file even under a locked folder, and an
\* unlocked file only becomes locked by lockFile on it or by lockFolder on a
\* folder above it.
C8_LockFolderLocksExistingFilesOnly ==
    [][ LET f == fs_last'.path IN
        /\ (fs_last'.op = "lockFolder" /\ isFolder(f)) =>
              /\ files'[f] = [files[f] EXCEPT !.isLocked = TRUE]
              /\ \A p \in Paths \ {f} :
                    IF underFolder(p, f) /\ isFile(p)
                    THEN files'[p] = [files[p] EXCEPT !.isLocked = TRUE,
                                                      !.lockedByFolder = f]
                    ELSE files'[p] = files[p]
        /\ fs_last'.op = "createFile" =>
              /\ files'[f].type = "file"
              /\ files'[f].isLocked = FALSE
              /\ files'[f].lockedByFolder = NoFolder
        /\ \A p \in Paths :
              (files'[p].type = "file" /\ files'[p].isLocked /\ ~ isFileLocked(p)) =>
                 \/ fs_last'.op = "lockFile" /\ f = p
                 \/ fs_last'.op = "lockFolder" /\ underFolder(p, f)
      ]_vars

\* C8 witness: a file was just created under a locked folder and is not
\* locked, beside a file outside the folder.
C8_Witness_CreatedUnderLockedFolder ==
    /\ fs_last.op = "createFile"
    /\ \E f \in Paths :
          /\ isFolderLocked(f)
          /\ f \in fs_everLocked
          /\ underFolder(fs_last.path, f)
    /\ ~ isFileLocked(fs_last.path)
    /\ \E q \in Paths : isFile(q) /\ q # fs_last.path

\* C9: a file locked with lockFile before lockFolder was ever called on its
\* folder is still locked after lockFolder(F) followed by unlockFolder(F).
C9_IndependentLockSurvivesFolderUnlock ==
    \A p \in Paths : fs_indep[p] = 3 => isFileLocked(p)

\* C2: at most maxConcurrent commands are Running, in every reachable state
\* of the queue: the running list never holds more than maxConcurrent
\* commands, and no more than maxConcurrent commands have status 'running'.
C2_AtMostMaxConcurrentRunning ==
    /\ Len(running) <= maxConcurrent
    /\ Cardinality({id \in DOMAIN commands : commands[id].status = "running"})
          <= maxConcurrent

\* C2 witness: the limit is reached while another command waits.
C2_Witness_FullWithWaiting ==
    /\ Len(running) = maxConcurrent
    /\ Len(queue) > 0
    /\ Len(completed) > 0

\* C10: retryCommand(id) on a command that is not currently Failed changes
\* none of the queue, running and completed lists nor any command's fields,
\* and starts no execution.
C10_RetryOfNonFailedIsNoOp ==
    [][ (cq_last'.op = "retryCommand" /\ cq_last'.pre # "failed")
          => UNCHANGED <<queue, running, completed, commands, cq_isProcessing>> ]_vars

\* C10 witness: retryCommand was called on a Completed command while
\* another command was waiting and a slot was free to start it.
C10_Witness_RetryOnCompleted ==
    /\ cq_last.op = "retryCommand"
    /\ cq_last.pre = "completed"
    /\ \E id \in DOMAIN commands : commands[id].status = "failed" /\ id \in Range(completed)

\* How many times id stands in the list.
CountIn(list, id) == Cardinality({k \in DOMAIN list : list[k] = id})

\* C11 as stated: retryCommand(id) on a Failed command removes it from the
\* completed list, sets its status to Pending, clears its error and leaves
\* it at the tail of the queue, behind every command that was waiting.
C11_RetriedCommandWaitsAtTail ==
    [][ (cq_last'.op = "retryCommand" /\ cq_last'.pre = "failed")
          => /\ cq_last'.id \notin Range(completed')
             /\ commands'[cq_last'.id].status = "pending"
             /\ commands'[cq_last'.id].error = NoValue
             /\ queue' = Append(queue, cq_last'.id) ]_vars

\* C11, amended: retryCommand(id) on a Failed command removes it from the
\* completed list and clears its error; when every slot is taken it is
\* Pending at the tail of the queue, behind every command that was waiting;
\* when a slot is free (then nothing was waiting) processQueue() starts it
\* in the same call and it is Running.  Either way it is in exactly one of
\* the three lists, once.
C11_RetriedCommandRequeuedOrStarted ==
    [][ (cq_last'.op = "retryCommand" /\ cq_last'.pre = "failed")
          => /\ cq_last'.id \notin Range(completed')
             /\ commands'[cq_last'.id].error = NoValue
             /\ CountIn(queue' \o running' \o completed', cq_last'.id) = 1
             /\ IF Len(running) >= maxConcurrent
                THEN /\ commands'[cq_last'.id].status = "pending"
                     /\ queue' = Append(queue, cq_last'.id)
                     /\ running' = running
                ELSE /\ queue = <<>>
                     /\ commands'[cq_last'.id].status = "running"
                     /\ queue' = <<>>
                     /\ running' = Append(running, cq_last'.id) ]_vars

\* C11 witness: a Failed command was retried while every slot was taken and
\* another command was waiting; it now waits behind that command.
C11_Witness_RetriedBehindWaiting ==
    /\ cq_last.op = "retryCommand"
    /\ cq_last.pre = "failed"
    /\ Len(running) = maxConcurrent
    /\ Len(queue) >= 2
    /\ queue[Len(queue)] = cq_last.id
    /\ commands[cq_last.id].status = "pending"

\* The status of a command before a step; "new" when the step creates it.
StatusBefore(id) == IF id \in DOMAIN commands THEN commands[id].status ELSE "new"

\* C12: a command's status only changes along Pending -> Running ->
\* Completed or Failed, plus Failed -> Pending by retryCommand.  One call
\* may take two of these steps at once: addCommand creates a command Pending
\* and may start it, retryCommand makes it Pending and may start it.
C12_StatusFollowsLifecycle ==
    [][ \A id \in DOMAIN commands' :
          \/ commands'[id].status = StatusBefore(id)
          \/ <<StatusBefore(id), commands'[id].status>>
                \in { <<"new", "pending">>, <<"pending", "running">>,
                      <<"running", "completed">>, <<"running", "failed">> }
          \/ /\ StatusBefore(id) = "new"
             /\ commands'[id].status = "running"
             /\ cq_last' = [op |-> "addCommand", id |-> id, pre |-> "unknown"]
          \/ /\ StatusBefore(id) = "failed"
             /\ commands'[id].status \in {"pending", "running"}
             /\ cq_last' = [op |-> "retryCommand", id |-> id, pre |-> "failed"] ]_vars

\* C12 witness: a command that failed was retried and runs again while a
\* Completed command sits in the completed list.
C12_Witness_RetriedRunsAgain ==
    /\ cq_last.op = "retryCommand"
    /\ cq_last.pre = "failed"
    /\ commands[cq_last.id].status = "running"
    /\ \E id \in Range(completed) : commands[id].status = "completed"

\* C13: when the executor fails for a command, the command is in the
\* completed list with status Failed and its error set, it is out of the
\* running list, processQueue() has started waiting commands until every
\* slot is taken or nothing waits; and a Failed command only leaves that
\* status by a retryCommand for it.
C13_FailureIsRecordedAndQueueGoesOn ==
    [][ /\ (cq_last'.op = "settle" /\ commands'[cq_last'.id].status = "failed")
           => /\ cq_last'.id \in Range(running)
              /\ cq_last'.id \notin Range(running')
              /\ CountIn(completed', cq_last'.id) = 1
              /\ commands'[cq_last'.id].error # NoValue
              /\ (queue' = <<>> \/ Len(running') = maxConcurrent)
              /\ Len(queue) - Len(queue') = Len(running') - (Len(running) - 1)
        /\ \A id \in DOMAIN commands :
              (commands[id].status = "failed" /\ commands'[id].status # "failed")
              => cq_last' = [op |-> "retryCommand", id |-> id, pre |-> "failed"] ]_vars

\* C13 witness: a command failed while two others were waiting; one of them
\* was started in its place and the other still waits.
C13_Witness_FailedAndNextStarted ==
    /\ cq_last.op = "settle"
    /\ commands[cq_last.id].status = "failed"
    /\ cq_last.id \in Range(completed)
    /\ Len(running) = maxConcurrent
    /\ Len(queue) >= 1

\* C14: a whole block whose non-empty search text does not occur in the
\* current content leaves the content and the ranges as they were, and
\* hasChanges is true exactly when a block so far was applied (its search
\* text was found, or was empty): it starts false, each block sets it when
\* it is applied and leaves it otherwise, and the last pass leaves it.
C14_MissingSearchSkippedAndHasChangesExact ==
    [][ /\ (pe_pc = "idle" /\ pe_pc' = "loop") => ~ hasChanges'
        /\ (pe_pc = "loop" /\ pe_iter' = pe_iter) => hasChanges' = hasChanges
        /\ (pe_iter' = pe_iter + 1 /\ pe_iter' <= Len(pe_segs)
              /\ \A i \in 1..pe_iter' : pe_segs[i].kind = "block")
           => LET b     == pe_segs[pe_iter']
                  found == b.search = <<>> \/ Occurs(b.search, modifiedContent)
              IN /\ ~ found => /\ modifiedContent' = modifiedContent
                               /\ updatedLines' = updatedLines
                 /\ hasChanges' = (hasChanges \/ found) ]_vars

\* C14 witness: the function returned after two blocks; the first was
\* applied, the second had a search text the content did not hold.
C14_Witness_SecondBlockSkipped ==
    /\ pe_pc = "done"
    /\ pe_iter = 2
    /\ WholeBlocks(2)
    /\ pe_segs[2].search # <<>>
    /\ ~ Occurs(pe_segs[2].search, pe_prev.modifiedContent)
    /\ pe_prev.modifiedContent # originalContent
    /\ modifiedContent = pe_prev.modifiedContent
    /\ hasChanges

\* Whether a patch text is whole blocks followed by one last piece with a
\* start marker and no divider after it, or no end marker after it.
MalformedTail(segs) ==
    /\ segs # <<>>
    /\ segs[Len(segs)].kind \in {"S", "SD"}
    /\ \A i \in 1..(Len(segs) - 1) : segs[i].kind = "block"

\* C15: on a patch text of whole blocks followed by a malformed marker
\* sequence, the loop handles the blocks before it and no more, and the
\* pass that meets the malformed sequence ends the function with the
\* content, ranges and hasChanges those blocks left.
C15_MalformedTailStopsAfterEarlierBlocks ==
    [][ MalformedTail(pe_segs') =>
          /\ pe_iter' <= Len(pe_segs') - 1
          /\ (pe_pc = "loop" /\ pe_pc' = "done")
             => /\ pe_iter = Len(pe_segs) - 1
                /\ UNCHANGED <<modifiedContent, updatedLines, hasChanges>>
          /\ (pe_pc = "loop" /\ pe_iter < Len(pe_segs) - 1)
             => pe_iter' = pe_iter + 1 ]_vars

\* C15 witness: a block that was applied, then a start marker and a divider
\* with no end marker; the function returned what the block had produced.
C15_Witness_BlockThenBrokenPiece ==
    /\ pe_pc = "done"
    /\ Len(pe_segs) = 2
    /\ MalformedTail(pe_segs)
    /\ pe_segs[2].kind = "SD"
    /\ pe_iter = 1
    /\ hasChanges
    /\ modifiedContent # originalContent

\* C16: after a modification run over previously generated files that got
\* a response, every file that existed before the run still exists, and a
\* file the response does not mention, or whose patch blocks did not apply,
\* has the content it had before.
C16_ModificationKeepsEveryFile ==
    (hg_pc = "idle" /\ hg_isModification /\ hg_outcome \in {"set", "no changes"})
    => \A filePath \in DOMAIN hg_closure.files :
          /\ generatedCode # Null
          /\ filePath \in DOMAIN generatedCode.files
          /\ ( \/ filePath \notin DOMAIN hg_response
               \/ ~ processFile(hg_response[filePath],
                                hg_closure.files[filePath]).changed )
             => generatedCode.files[filePath] = hg_closure.files[filePath]

\* Whether something is pending: hasPendingUpdates().
HasPending == DOMAIN pendingFiles # {} \/ pendingCommands # <<>>

\* The batch that holds everything pending now.
BatchOfPending ==
    [files |-> pendingFiles, commands |-> pendingCommands, time |-> du_now]

\* C17: a call of flush() while files or commands are pending cancels the
\* pending timer and hands one batch with all the pending items to the
\* handler within the call; nothing added before the call is pending after.
C17_FlushEmitsAllPending ==
    [][ (du_flushes' = du_flushes + 1 /\ HasPending)
          => /\ timeoutId' = NoTimer
             /\ du_timers' = {}
             /\ du_batches' = Append(du_batches, BatchOfPending)
             /\ pendingFiles' = <<>>
             /\ pendingCommands' = <<>> ]_vars

\* How many of the batches handed over hold the command n.
BatchesWithCommand(n) ==
    Cardinality({i \in DOMAIN du_batches :
                    \E k \in DOMAIN du_batches[i].commands :
                        du_batches[i].commands[k] = n})

\* How many of the batches handed over hold the content n of a file.
BatchesWithFile(n) ==
    Cardinality({i \in DOMAIN du_batches :
                    \E q \in DOMAIN du_batches[i].files :
                        du_batches[i].files[q] = n})

\* C18: under every interleaving of additions, timer firings, flush() calls
\* and handler completions, each added command is in at most one batch, once,
\* and so is each added file content: no two batches are built from the same
\* pending items.
C18_EachItemInAtMostOneBatch ==
    \A a \in DOMAIN du_adds :
        /\ BatchesWithCommand(du_adds[a].item) <= 1
        /\ BatchesWithFile(du_adds[a].item) <= 1
        /\ \A i \in DOMAIN du_batches :
              Cardinality({k \in DOMAIN du_batches[i].commands :
                              du_batches[i].commands[k] = du_adds[a].item}) <= 1

\* C18 witness: two commands were added; a flush handed the first over at
\* the instant it was added, the timer of the second fired a delay after the
\* second, and each batch holds its own command only.
C18_Witness_FlushBatchThenTimerBatch ==
    /\ Len(du_batches) = 2
    /\ du_flushes >= 1
    /\ Len(du_adds) >= 2
    /\ du_adds[1].kind = "command"
    /\ du_adds[2].kind = "command"
    /\ du_batches[1].commands = <<du_adds[1].item>>
    /\ du_batches[1].time = du_adds[1].time
    /\ du_batches[2].commands = <<du_adds[2].item>>
    /\ du_batches[2].time = du_adds[2].time + Delay

\* C19: when the handler rejects, the settling leaves the pending buffers
\* and the batches as they are and releases isProcessing; and from then on a
\* timer firing or a flush that finds pending items and no batch with the
\* handler hands them over in a new batch.
C19_RejectionReleasesAndKeepsNothing ==
    [][ /\ (du_inflight # NoBatch /\ du_inflight' = NoBatch /\ du_rejected')
           => /\ UNCHANGED <<pendingFiles, pendingCommands, du_batches>>
              /\ du_isProcessing' = FALSE
        /\ ( /\ du_rejected
             /\ du_inflight = NoBatch
             /\ HasPending
             /\ du_adds' = du_adds
             /\ du_now' = du_now
             /\ du_rejected' = du_rejected )
           => /\ du_batches' = Append(du_batches, BatchOfPending)
              /\ pendingFiles' = <<>>
              /\ pendingCommands' = <<>> ]_vars

\* C19 witness: the handler rejected the first batch, and a command added
\* after that is with the handler in a second batch.
C19_Witness_BatchAfterRejection ==
    /\ du_rejected
    /\ Len(du_batches) = 2
    /\ du_inflight # NoBatch
    /\ du_inflight.id = 2
    /\ du_inflight.commands # <<>>
    /\ pendingCommands = <<>>

\* Whether none of the batches holds the item n.
InNoBatch(batches, n) ==
    \A i \in DOMAIN batches :
        /\ \A k \in DOMAIN batches[i].commands : batches[i].commands[k] # n
        /\ \A q \in DOMAIN batches[i].files : batches[i].files[q] # n

\* C20: the step that hands a batch to the handler leaves the pending
\* buffers empty; while the batch is with the handler its contents do not
\* change, and an item added meanwhile is pending and in no batch.
C20_BuffersEmptyAtHandOverAndBatchFixed ==
    [][ /\ (du_inflight = NoBatch /\ du_inflight' # NoBatch)
           => /\ pendingFiles' = <<>>
              /\ pendingCommands' = <<>>
              /\ du_inflight'.files = pendingFiles
              /\ du_inflight'.commands = pendingCommands
        /\ (du_inflight # NoBatch /\ du_inflight' # NoBatch)
           => /\ du_inflight' = du_inflight
              /\ du_batches' = du_batches
        /\ (du_inflight # NoBatch /\ Len(du_adds') = Len(du_adds) + 1)
           => LET a == du_adds'[Len(du_adds')]
              IN /\ InNoBatch(du_batches', a.item)
                 /\ InNoBatch(<<du_inflight'>>, a.item)
                 /\ IF a.kind = "command"
                    THEN pendingCommands' = Append(pendingCommands, a.item)
                    ELSE /\ a.path \in DOMAIN pendingFiles'
                         /\ pendingFiles'[a.path] = a.item ]_vars

\* C20 witness: a batch with a file is with the handler, and a command and
\* a file added after the hand-over are pending.
C20_Witness_AddedWhileHandlerRuns ==
    /\ du_inflight # NoBatch
    /\ DOMAIN du_inflight.files # {}
    /\ Len(du_batches) = 1
    /\ Len(du_adds) = 3
    /\ pendingCommands # <<>>
    /\ DOMAIN pendingFiles # {}

\* C21: in every state the store's operations reach, a file whose
\* lockedByFolder is F has F in the map as a folder with isLocked = true.
C21_LockedByFolderMeansFolderLocked ==
    \A p \in Paths :
        (isFile(p) /\ files[p].lockedByFolder # NoFolder)
        => isFolderLocked(files[p].lockedByFolder)

\* C22: lockFile(p) and unlockFile(p) on an existing file change nothing but
\* the isLocked flag of p: p's lockedByFolder, its content and every other
\* entry stay as they were.
C22_FileLockTouchesIsLockedOnly ==
    [][ (fs_last'.op \in {"lockFile", "unlockFile"} /\ isFile(fs_last'.path))
          => /\ files'[fs_last'.path] =
                   [files[fs_last'.path] EXCEPT
                       !.isLocked = (fs_last'.op = "lockFile")]
             /\ \A q \in Paths \ {fs_last'.path} : files'[q] = files[q] ]_vars

\* C23: while isFileLocked(p) reports locked, no operation of the store
\* changes the content of p or removes it.
C23_LockedFileIsNotMutated ==
    [][ \A p \in Paths :
          isFileLocked(p) => /\ files'[p].type = "file"
                             /\ files'[p].content = files[p].content ]_vars

\* C24: a parse(id, t) that immediately repeats a parse(id, t) hands the
\* callbacks nothing and leaves the session (cursor, open artifact, open
\* action with its content, action counter) as it was; and after every
\* parse(id, t) the session's cursor is the length of t.
C24_RepeatedParseChangesNothing ==
    [][ sp_last'.op = "parse" =>
          /\ messages'[sp_last'.id].position = sp_last'.n
          /\ sp_last'.again =>
                /\ messages'[sp_last'.id] = messages[sp_last'.id]
                /\ sp_streamed' = sp_streamed
                /\ sp_completed' = sp_completed ]_vars

\* C24 witness: the call repeated one that had left an action open with
\* content in it.
C24_Witness_RepeatedWithOpenAction ==
    /\ sp_last.op = "parse"
    /\ sp_last.again
    /\ messages[sp_last.id].insideAction
    /\ messages[sp_last.id].currentAction.content # <<>>
    /\ messages[sp_last.id].position = sp_last.n

\* C29: parse(a, ...) and clear(a) leave every session b # a, and what its
\* callbacks were handed, as they were; clear(a) removes the session of a;
\* and the parse(a, text) that follows a clear(a) does what a parse of text
\* on a parser that never saw a does: it scans from offset 0, from no open
\* artifact, no open action and an action counter of 0.
C29_SessionsIsolatedAndClearedAfresh ==
    [][ /\ \A b \in MsgIds \ {sp_last'.id} :
              /\ messages'[b] = messages[b]
              /\ sp_streamed'[b] = sp_streamed[b]
              /\ sp_completed'[b] = sp_completed[b]
        /\ sp_last'.op = "clear" => messages'[sp_last'.id] = NoSession
        /\ (sp_last'.op = "parse" /\ sp_last'.afterClear) =>
              /\ messages'[sp_last'.id] =
                    parseAccumulate(
                        parseLoops([NewSession EXCEPT !.position = sp_last'.n],
                                   sp_last'.id,
                                   SubSeq(Concat(sp_message), 1, sp_last'.n)),
                        SubSeq(Concat(sp_message), 1, sp_last'.n)).st
              /\ messages'[sp_last'.id].actionId
                    = Len(ExecAll(actionOpen, SubSeq(Concat(sp_message), 1, sp_last'.n),
                                  0, NoFlags)) ]_vars

\* C29 witness: a session was cleared with its cursor past the action's open
\* tag and then handed the whole message: it has counted the action again
\* from 0 and completed the artifact, while the other session still has its
\* action open.
C29_Witness_ParsedAfreshBesideOpenSession ==
    /\ sp_last.op = "parse"
    /\ sp_last.afterClear
    /\ sp_last.n = Len(Concat(sp_message))
    /\ messages[sp_last.id].actionId = 1
    /\ Len(sp_completed[sp_last.id]) = 1
    /\ \E b \in MsgIds \ {sp_last.id} :
          messages[b] # NoSession /\ messages[b].insideAction

\* The length of the first k pieces of a message.
LenOfPieces(pieces, k) == Len(Concat(SubSeq(pieces, 1, k)))

\* C26: a parse call on a session inside an open artifact, whose new suffix
\* holds two complete actions (open, close, open, close), hands both to the
\* action-close callback in text order, each with its own type and filePath.
C26_TwoActionsReportedInTextOrder ==
    [][ ( /\ sp_message = TwoActionsMessage
          /\ sp_last'.op = "parse"
          /\ messages[sp_last'.id] # NoSession
          /\ messages[sp_last'.id].position = LenOfPieces(sp_message, 1)
          /\ messages[sp_last'.id].insideArtifact
          /\ ~ messages[sp_last'.id].insideAction
          /\ sp_last'.n = LenOfPieces(sp_message, 7) )
        => LET before == sp_streamed[sp_last'.id]
               after  == sp_streamed'[sp_last'.id]
           IN /\ Len(after) = Len(before) + 2
              /\ SubSeq(after, 1, Len(before)) = before
              /\ after[Len(before) + 1].type = <<"f", "i", "l", "e">>
              /\ after[Len(before) + 1].filePath = [defined |-> TRUE, text |-> <<"f">>]
              /\ after[Len(before) + 2].type = <<"s", "h", "e", "l", "l">>
              /\ ~ after[Len(before) + 2].filePath.defined ]_vars

\* The text between the open tag and the close tag of the action of a type
\* in the message (its messages hold one action of a type at most).
ActionText(pieces, type) ==
    LET tag == IF type = <<"f", "i", "l", "e">> THEN TagActionOpenFile
               ELSE TagActionOpenShell
    IN pieces[(CHOOSE k \in DOMAIN pieces : pieces[k] = tag) + 1]

\* C27: every action the action-close callback was handed has as content
\* the text between its open tag and its close tag, however the message was
\* cut into parse calls.
C27_ClosedActionHasItsText ==
    \A id \in StreamIds :
        \A i \in DOMAIN sp_streamed[id] :
            sp_streamed[id][i].content = ActionText(sp_message, sp_streamed[id][i].type)

\* C28: in the message that begins with an action-close tag and an
\* artifact-close tag that nothing opened, no callback is invoked before the
\* close tag of the message's action has been handed to parse, and the call
\* that is handed the two stray tags alone leaves the session as new but for
\* its cursor.
C28_StrayCloseTagsIgnored ==
    \A id \in StreamIds :
        (sp_message = StrayClosersMessage /\ messages[id] # NoSession) =>
            /\ messages[id].position < LenOfPieces(sp_message, 6)
               => /\ sp_streamed[id] = <<>>
                  /\ sp_completed[id] = <<>>
            /\ messages[id].position <= LenOfPieces(sp_message, 2)
               => messages[id] = [NewSession EXCEPT !.position = messages[id].position]

\* What a whole block makes of a content: its replace text and a newline
\* put before it when its search text is empty, the first occurrence of its
\* search text replaced when there is one ("$&" in the replace text standing
\* for the text that was matched), and the content as it was otherwise.
BlockResult(content, b) ==
    IF b.search = <<>> THEN b.replace \o <<"\n">> \o content
    ELSE IF ~ Occurs(b.search, content) THEN content
    ELSE LET i    == FirstOccurrence(b.search, content)
             text == IF b.replace = <<"$", "&">> THEN b.search ELSE b.replace
         IN SubSeq(content, 1, i) \o text
            \o SubSeq(content, i + Len(b.search) + 1, Len(content))

\* The blocks applied one after another, each to what the earlier ones made.
RECURSIVE BlocksInOrder(_, _)
BlocksInOrder(content, blocks) ==
    IF blocks = <<>> THEN content
    ELSE BlocksInOrder(BlockResult(content, Head(blocks)), Tail(blocks))

\* C25: the blocks of a patch are applied one after another in source
\* order, each search running against the content the earlier blocks
\* produced: after the n-th pass the content is what the first n blocks, in
\* their order, make of the original; a block is recorded as applied exactly
\* when its search text is empty or occurs in that content.
C25_BlocksAppliedInSourceOrder ==
    (pe_iter >= 1 /\ WholeBlocks(pe_iter)) =>
        LET b      == pe_segs[pe_iter]
            before == BlocksInOrder(originalContent, SubSeq(pe_segs, 1, pe_iter - 1))
        IN /\ pe_prev.modifiedContent = before
           /\ modifiedContent = BlocksInOrder(originalContent, SubSeq(pe_segs, 1, pe_iter))
           /\ Len(updatedLines) = Len(pe_prev.updatedLines)
                 + (IF b.search = <<>> \/ Occurs(b.search, before) THEN 1 ELSE 0)

\* C25 witness: the second block's search text occurs in the first block's
\* replace text and not in the original, and the second block was applied.
C25_Witness_SearchFoundInEarlierReplaceText ==
    /\ pe_iter = 2
    /\ WholeBlocks(2)
    /\ pe_segs[2].search # <<>>
    /\ ~ Occurs(pe_segs[2].search, originalContent)
    /\ Occurs(pe_segs[2].search, pe_segs[1].replace)
    /\ Len(updatedLines) = 2
    /\ modifiedContent # pe_prev.modifiedContent

\* The other case of C25: the second block's search text occurs in the
\* original, the first block removed it, and the second block was skipped.
C25_SearchRemovedByEarlierBlock ==
    /\ pe_iter = 2
    /\ WholeBlocks(2)
    /\ Occurs(pe_segs[2].search, originalContent)
    /\ pe_segs[2].search # <<>>
    /\ ~ Occurs(pe_segs[2].search, pe_prev.modifiedContent)
    /\ Len(updatedLines) = 1
    /\ modifiedContent = pe_prev.modifiedContent

\* Whether a command is running.
IsRunning(c, id) == id \in DOMAIN c /\ c[id].status = "running"

\* C30: commands start in the order in which they entered the queue, by
\* addCommand or by an effective retryCommand: in every step the commands
\* that start are the ones that entered first among the waiting ones (the
\* command the step itself enters being the last), they are appended to the
\* running list in that order, and the ones left waiting, all pending, keep
\* their order.
C30_CommandsStartInEntryOrder ==
    [][ LET entered == IF cq_last'.op = "addCommand"
                          \/ (cq_last'.op = "retryCommand" /\ cq_last'.pre = "failed")
                       THEN Append(queue, cq_last'.id)
                       ELSE queue
            started == {id \in DOMAIN commands' :
                          IsRunning(commands', id) /\ ~ IsRunning(commands, id)}
            k       == Cardinality(started)
        IN /\ k <= Len(entered)
           /\ started = Range(SubSeq(entered, 1, k))
           /\ queue' = SubSeq(entered, k + 1, Len(entered))
           /\ SubSeq(running', Len(running') - k + 1, Len(running')) = SubSeq(entered, 1, k)
           /\ \A id \in Range(queue') : commands'[id].status = "pending" ]_vars

\* C30 witness: a command settled while a command created before it was
\* still running (they do not settle in the order they start), and that
\* made room for the first of the waiting commands while a command created
\* later went on waiting.
C30_Witness_HeadStartedOthersWait ==
    /\ cq_last.op = "settle"
    /\ Len(running) = maxConcurrent
    /\ running[1] < cq_last.id
    /\ cq_last.id < running[2]
    /\ Len(queue) >= 1
    /\ \A id \in Range(queue) : running[2] < id

\* How many times a command stands in the three lists together.
ListCount(q, r, d, id) == CountIn(q, id) + CountIn(r, id) + CountIn(d, id)

\* C36: after every operation each command that was added stands in at most
\* one of the queue, running and completed lists, once, with the status of
\* its list (pending, running, completed or failed), and a command stands
\* in none of them only when clearCompleted removed it from the completed
\* list, in this operation or in an earlier one.
C36_EachCommandInOneListWithItsStatus ==
    [][ \A id \in DOMAIN commands' :
          /\ ListCount(queue', running', completed', id) <= 1
          /\ id \in Range(queue') => commands'[id].status = "pending"
          /\ id \in Range(running') => commands'[id].status = "running"
          /\ id \in Range(completed') => commands'[id].status \in {"completed", "failed"}
          /\ ListCount(queue', running', completed', id) = 0
             => /\ id \in DOMAIN commands
                /\ \/ ListCount(queue, running, completed, id) = 0
                   \/ cq_last'.op = "clearCompleted" /\ id \in Range(completed) ]_vars

\* C36 witness: one command was cleared, one failed, was retried and waits,
\* and two are running.
C36_Witness_ClearedWaitingAndRunning ==
    /\ \E id \in DOMAIN commands : ListCount(queue, running, completed, id) = 0
    /\ cq_last.op = "retryCommand"
    /\ cq_last.pre = "failed"
    /\ cq_last.id \in Range(queue)
    /\ Len(running) = maxConcurrent

\* C31: provided every executor call settles, a waiting command eventually
\* stands in the completed list with status completed or failed, and at no
\* time is a command waiting while fewer than maxConcurrent are running.
C31_WaitingCommandEventuallySettles ==
    /\ [](Len(queue) > 0 => Len(running) = maxConcurrent)
    /\ \A id \in CommandIds :
          (id \in Range(queue))
          ~> (id \in Range(completed) /\ commands[id].status \in {"completed", "failed"})

\* C31 witness: a command that had to wait has completed, its completion
\* started the first of the waiting commands, and a retried command still
\* waits.
C31_Witness_WaitedAndCompleted ==
    /\ cq_last.op = "settle"
    /\ cq_last.id >= maxConcurrent + 1
    /\ commands[cq_last.id].status = "completed"
    /\ Len(running) = maxConcurrent
    /\ Len(queue) >= 1

\* Whether every addition so far was made early enough for its timer to be
\* due before the model's clock stops.
TimersWithinClock ==
    \A k \in DOMAIN du_adds : du_adds[k].time + Delay <= MaxTime

\* C32: once files or commands are pending they are eventually handed to
\* the handler (nothing is left pending), with no flush() called and no
\* further addition needed, provided time passes, due timers fire and
\* handler calls settle.  Runs in which flush() is called, or an addition's
\* timer would be due after the clock of the model stops, are left aside.
C32_PendingItemsEventuallyHandedOver ==
    [](HasPending => <>(~ HasPending \/ du_flushes > 0 \/ ~ TimersWithinClock))

\* The number of entries of a batch: its files plus its commands.
BatchSize(b) == Cardinality(DOMAIN b.files) + Len(b.commands)

\* C33: no batch handed to the handler holds more than maxBatchSize entries.
C33_BatchWithinMaxBatchSize ==
    \A i \in DOMAIN du_batches : BatchSize(du_batches[i]) <= maxBatchSize

\* C37: the handler is invoked only when no earlier invocation is in
\* flight, with one batch that holds a file or a command; isProcessing is
\* set exactly while an invocation is in flight.
C37_OneHandlerCallInFlightNeverEmpty ==
    [][ /\ Len(du_batches') > Len(du_batches)
           => /\ du_inflight = NoBatch
              /\ ~ du_isProcessing
              /\ Len(du_batches') = Len(du_batches) + 1
              /\ BatchSize(du_batches'[Len(du_batches')]) >= 1
              /\ du_inflight'.id = Len(du_batches')
        /\ du_isProcessing' = (du_inflight' # NoBatch)
        /\ (du_inflight # NoBatch /\ du_inflight' # NoBatch) => du_inflight' = du_inflight ]_vars

\* C37 witness: flush() was called while a batch was with the handler and
\* items were pending, the timer had fired before; the batch in flight is
\* still the only one since.
C37_Witness_FlushWhileInFlight ==
    /\ du_inflight # NoBatch
    /\ HasPending
    /\ du_flushes >= 1
    /\ timeoutId = NoTimer
    /\ du_inflight.id = Len(du_batches)
    /\ Len(du_batches) >= 2

\* Whether classifyBlock took the block for a command.
ShIsCommand == sh_result # Null /\ sh_result.type = "command"

\* How many of the block's lines are no comments and pass the single-line
\* command test.
ShSingleLineCount ==
    Cardinality({k \in DOMAIN sh_lines :
                    /\ ~ startsWith(sh_lines[k], <<"#">>)
                    /\ isSingleLineCommand(sh_lines[k])})

\* How many of the block's lines are no comments and pass the single-line
\* command test or the simple-command test.
ShCommandLikeCount ==
    Cardinality({k \in DOMAIN sh_lines :
                    /\ ~ startsWith(sh_lines[k], <<"#">>)
                    /\ (isSingleLineCommand(sh_lines[k]) \/ isSimpleCommand(sh_lines[k]))})

\* C34 as stated: a shell block of two or more lines and no script
\* indicator is a command if and only if more than 70% of its lines are no
\* comments and pass the single-line command test.
C34_CommandIffSingleLineTestOver70 ==
    (sh_result # Unclassified /\ Len(sh_lines) >= 2
       /\ ~ looksLikeScriptContent(JoinLines(sh_lines)))
    => (ShIsCommand <=> 10 * ShSingleLineCount > 7 * Len(sh_lines))

\* C34: a shell block of two or more lines and no script indicator is a
\* command if and only if more than 70% of its lines are no comments and
\* pass the single-line command test or the simple-command test; at exactly
\* 70% it is no command.
C34_CommandIffCommandLikeOver70 ==
    (sh_result # Unclassified /\ Len(sh_lines) >= 2
       /\ ~ looksLikeScriptContent(JoinLines(sh_lines)))
    => (ShIsCommand <=> 10 * ShCommandLikeCount > 7 * Len(sh_lines))

\* C34 witness: a block of ten lines, seven of them commands and three
\* comments, was classified and is no command.
C34_Witness_SevenOfTenIsNoCommand ==
    /\ sh_result # Unclassified
    /\ ~ ShIsCommand
    /\ Len(sh_lines) = 10
    /\ ShCommandLikeCount = 7
    /\ \E k \in DOMAIN sh_lines : startsWith(sh_lines[k], <<"#">>)

\* The kind of change the claim gives a path between two trees, "none" when
\* the path is in neither or is in both with the same content.
DtExpected(oldFiles, newFiles, p) ==
    IF p \notin DOMAIN oldFiles /\ p \in DOMAIN newFiles THEN "created"
    ELSE IF p \in DOMAIN oldFiles /\ p \notin DOMAIN newFiles THEN "deleted"
    ELSE IF p \in DOMAIN oldFiles /\ p \in DOMAIN newFiles /\ oldFiles[p] # newFiles[p]
    THEN "modified"
    ELSE "none"

\* C35: the change list of a snapshot taken after another has exactly one
\* entry for each path whose presence or content differs between the two
\* trees, of type created, deleted or modified as the path is only in the
\* new tree, only in the old one, or in both with different contents, and
\* no entry for any other path; files whose content is empty included.
C35_ChangeListMatchesTreeDifference ==
    (dt_current # Null /\ dt_prev # Null) =>
        \A p \in Range(DtPathOrder) :
            LET entries  == {k \in DOMAIN dt_current.changes :
                                dt_current.changes[k].path = p}
                expected == DtExpected(dt_prev, dt_current.files, p)
            IN IF expected = "none" THEN entries = {}
               ELSE /\ Cardinality(entries) = 1
                    /\ \A k \in entries : dt_current.changes[k].type = expected

\* Whether the elements of a stand in b, in the same order, each at a place
\* of its own.
RECURSIVE IsSubsequence(_, _)
IsSubsequence(a, b) ==
    IF a = <<>> THEN TRUE
    ELSE IF b = <<>> THEN FALSE
    ELSE IF Head(a) = Head(b) THEN IsSubsequence(Tail(a), Tail(b))
    ELSE IsSubsequence(a, Tail(b))

\* C38: in a session, the actions of every artifact handed to
\* onArtifactComplete were handed to onActionStream, in the order of the
\* artifact's list, and onActionStream was handed no action twice (the
\* actions it was handed have different ids).
C38_ArtifactActionsWereStreamedOnce ==
    \A id \in MsgIds :
        /\ \A i, j \in DOMAIN sp_streamed[id] :
              i # j => sp_streamed[id][i].id # sp_streamed[id][j].id
        /\ \A k \in DOMAIN sp_completed[id] :
              IsSubsequence(sp_completed[id][k].actions, sp_streamed[id])

\* C38 witness: an artifact with two actions was completed after its
\* actions had been streamed one by one.
C38_Witness_ArtifactWithTwoActions ==
    \E id \in MsgIds :
        /\ Len(sp_streamed[id]) = 2
        /\ \E k \in DOMAIN sp_completed[id] : Len(sp_completed[id][k].actions) = 2

\* C39: filesCount is the number of entries of type 'file' in the file map.
C39_FilesCountIsNumberOfFiles ==
    filesCount = countFiles(fc_files)

\* C40: at most one WebContainer boot is in flight at any time, and a call
\* that finds a boot in flight waits for that boot instead of starting one.
C40_AtMostOneBootInFlight ==
    /\ Cardinality(bootsInFlight) <= 1
    /\ \A c \in WcCallers :
           wc_call[c].pc = "booting" /\ wc_call[c].boot \in bootsInFlight
               => bootsInFlight = {wc_call[c].boot}

\* The case the claim names: two calls that both awaited teardown never have
\* their two boots in flight together.
C40_TwoCallsAfterTeardownStartOneBoot ==
    ~ \E c, d \in WcCallers :
         /\ c # d
         /\ wc_call[c].pc = "booting" /\ wc_call[d].pc = "booting"
         /\ wc_call[c].toreDown /\ wc_call[d].toreDown
         /\ {wc_call[c].boot, wc_call[d].boot} \subseteq bootsInFlight

====
